---- MODULE Spec2Model ----
(***************************************************************************)
(* Mashup Discovery Tool: the compatibility endpoint (/api/compatible),    *)
(* the search endpoint (/api/search), the video endpoint (/api/youtube),   *)
(* the client-side musicService, the token caches, the search panel and    *)
(* the key-compatibility lookups.                                          *)
(*                                                                         *)
(* Conventions of the model                                                *)
(*   - a string of the program whose characters matter (track name, artist *)
(*     name, search text, video id) is a sequence of UTF-16 code units;    *)
(*   - a track id is an opaque positive number, NoId is the empty string   *)
(*     ('' is what the handler reads for an absent excludeId);             *)
(*   - a floating point tempo is held in tenths of a BPM (tempoX10);       *)
(*   - a search query string is the record of its parts.                   *)
(***************************************************************************)
EXTENDS Integers, Sequences, FiniteSets, TLC

VARIABLES
    request,         \* query parameters of the /api/compatible request
    world,           \* what the provider answers: searches, audio features
    env,             \* process.env credentials and the token endpoint's answer
    now,             \* Date.now()
    compatToken,     \* compatible route: spotifyToken / tokenExpiresAt
    compatResponse,  \* compatible route: the NextResponse (status, tracks)
    candidates,      \* compatible route: entries of the .map, before .filter
    ranked,          \* compatible route: entries after filter/sort/slice
    issued,          \* compatible route: the search queries sent
    batches,         \* compatible route: the id lists sent to audio-features
    searchRequest,   \* query parameter q of the /api/search request
    searchToken,     \* search route: spotifyToken / tokenExpiresAt
    searchResponse,  \* search route: the NextResponse (status, tracks)
    kIn,             \* getCompatibleKeys: the key asked for
    kImpl,           \* getCompatibleKeys: which of the two copies is called
    kOut,            \* getCompatibleKeys: the values returned so far
    kCalls,          \* getCompatibleKeys: number of calls made
    svcCall,         \* musicService: the method called and its arguments
    svcResult,       \* musicService: how the returned promise settled
    svcEvents,       \* musicService: the events dispatched on window
    ytRequest,       \* query parameters q and type of the /api/youtube request
    ytEnv,           \* process.env: whether a YouTube API key is configured
    ytWorld,         \* what the video provider answers: search, video details
    ytResponse,      \* youtube route: the NextResponse (status, videos)
    tokImpl,         \* getSpotifyToken: which of the three copies is running
    tokCache,        \* getSpotifyToken: spotifyToken / tokenExpiresAt of that copy
    tokCalls,        \* getSpotifyToken: the position and result of each call
    tokLog,          \* getSpotifyToken: the token responses stored, in order
    panelProps,      \* SearchPanel: the filterBpm prop
    panelRequests,   \* SearchPanel: the service calls made so far
    searchResults,   \* SearchPanel: state searchResults
    filteredSongs,   \* SearchPanel: state filteredSongs
    loading,         \* SearchPanel: state loading
    playerProps,     \* YouTubePlayer: the props song, type, autoSearch
    playerVideos,    \* YouTubePlayer: state videos
    selectedVideo,   \* YouTubePlayer: state selectedVideo
    playerLoading,   \* YouTubePlayer: state loading
    hasSearched,     \* YouTubePlayer: state hasSearched
    searchTimeout,   \* YouTubePlayer: whether searchTimeoutRef holds a pending timer
    playerRequests,  \* YouTubePlayer: the searchYouTubeVideos calls made so far
    videoCache,      \* YouTubePlayer: the module-level Map videoCache
    today,           \* QuotaIndicator: new Date().toDateString(), as a day number
    quotaMounted,    \* QuotaIndicator: whether the component is mounted
    estimatedUsage,  \* QuotaIndicator: state estimatedUsage
    quotaStored,     \* QuotaIndicator: localStorage item 'youtube-quota-usage'
    quotaConsumed,   \* QuotaIndicator: the quota events received, with their day
    leftSong,        \* Home: state leftSong
    rightSong,       \* Home: state rightSong
    rightPanel       \* Home: searchResults and filteredSongs of the right SearchPanel

vars == <<request, world, env, now, compatToken, compatResponse, candidates, ranked,
          issued, batches, searchRequest, searchToken, searchResponse,
          kIn, kImpl, kOut, kCalls,
          svcCall, svcResult, svcEvents, ytRequest, ytEnv, ytWorld, ytResponse,
          tokImpl, tokCache, tokCalls, tokLog,
          panelProps, panelRequests, searchResults, filteredSongs, loading,
         playerProps, playerVideos, selectedVideo, playerLoading, hasSearched, searchTimeout,
         playerRequests, videoCache, today, quotaMounted, estimatedUsage, quotaStored,
         quotaConsumed, leftSong, rightSong, rightPanel>>

compatVars == <<request, world, env, now, compatToken, compatResponse, candidates, ranked,
                issued, batches>>
searchVars == <<searchRequest, searchToken, searchResponse>>
keyVars == <<kIn, kImpl, kOut, kCalls>>
svcVars == <<svcCall, svcResult, svcEvents>>
ytVars == <<ytRequest, ytEnv, ytWorld, ytResponse>>
tokVars == <<tokImpl, tokCache, tokCalls, tokLog>>
panelVars == <<panelProps, panelRequests, searchResults, filteredSongs, loading>>
playerVars == <<playerProps, playerVideos, selectedVideo, playerLoading, hasSearched,
               searchTimeout, playerRequests, videoCache>>
quotaVars == <<today, quotaMounted, estimatedUsage, quotaStored, quotaConsumed>>
homeVars == <<leftSong, rightSong, rightPanel>>
uiVars == <<playerVars, quotaVars, homeVars>>

(***************************************************************************)
(* Bounds of the model                                                     *)
(***************************************************************************)
MaxItems == 2          \* longest item list of an enumerated search response
MaxTargetBpm == 125    \* largest target BPM of the single-track runs
MaxKeyCalls == 2       \* repeated getCompatibleKeys calls
BigPoolExtra == 2      \* a large pool holds ResultLimit + BigPoolExtra tracks
MaxCallers == 2        \* concurrent callers of getSpotifyToken
MaxTokenCalls == 3     \* calls of getSpotifyToken, over all callers
MaxPanelRequests == 3  \* service calls started by one SearchPanel
MaxPlayerRequests == 2 \* searchYouTubeVideos calls of the YouTubePlayer
MaxQuotaEvents == 3    \* quota events dispatched
MaxDays == 3           \* days the browser profile lives through
Now0 == 1000000        \* Date.now() when the first request arrives

(***************************************************************************)
(* Program constants                                                       *)
(***************************************************************************)
ResultLimit == 25      \* .slice(0, 25)
SearchCap == 8         \* searchQueries.slice(0, 8)
SearchLimit == 25      \* compatible route: params.limit of a search call
SearchRouteLimit == 20 \* search route: params.limit of the search call
BatchSize == 100       \* const batchSize = 100
NoDifference == 999    \* let bpmDifference = 999
BpmTolerance == 5      \* within 5 BPM
PseudoBpmBase == 60    \* 60 + (hash % 121)
PseudoBpmSpan == 121
TermLimit == 3         \* baseTerms.slice(0, 3)
GenreLimit == 5        \* genres.slice(0, 5)
EarlyRefreshSec == 300 \* (expires_in - 300) * 1000
MinDurationMs == 90000   \* durationMinutes >= 1.5
MaxDurationMs == 480000  \* durationMinutes <= 8
ServiceEarlyRefreshMs == 60000  \* musicService: - 60000
FallbackLimit == 10    \* filtered.slice(0, 10), limit: number = 10
YtMaxResults == 5      \* maxResults: 5
YtBestLimit == 5       \* sortedVideos.slice(0, 5)
QuotaUnitsPerSearch == 30  \* detail: { units: 30 }

NoId == 0
NoToken == 0

(***************************************************************************)
(* Arithmetic of the JavaScript runtime                                    *)
(***************************************************************************)
Abs(x) == IF x < 0 THEN -x ELSE x

Min(a, b) == IF a < b THEN a ELSE b

\* Math.round of a value held in tenths: floor(x + 0.5)
MathRoundX10(x10) == (x10 + 5) \div 10

\* Math.round(n / 2) for an integer n: floor(n/2 + 0.5)
MathRoundHalf(n) == (n + 1) \div 2

\* Math.round(duration_ms / 1000)
MathRoundMs(ms) == (ms + 500) \div 1000

RECURSIVE SumCodes(_)
SumCodes(s) == IF s = <<>> THEN 0 ELSE Head(s) + SumCodes(Tail(s))

\* (track.name + track.artists[0].name).split('').reduce((acc, char) => acc + char.charCodeAt(0), 0)
NameHash(track) == SumCodes(track.name \o track.artists[1])

RECURSIVE JoinNames(_)
JoinNames(names) ==
    IF Len(names) = 0 THEN <<>>
    ELSE IF Len(names) = 1 THEN names[1]
    ELSE names[1] \o <<44, 32>> \o JoinNames(Tail(names))

\* the elements of s at the positions from i on that are in keep, in order
KeepAt(s, keep, i) ==
    LET idx == {j \in i..Len(s) : j \in keep}
        at(m) == CHOOSE j \in idx : Cardinality({l \in idx : l < j}) = m - 1
    IN [m \in 1..Cardinality(idx) |-> s[at(m)]]

RECURSIVE Flatten(_)
Flatten(ss) == IF ss = <<>> THEN <<>> ELSE Head(ss) \o Flatten(Tail(ss))

Slice(s, n) == SubSeq(s, 1, Min(Len(s), n))

(***************************************************************************)
(* Audio features and track conversion                                     *)
(***************************************************************************)
NoFeatures == [present |-> FALSE, id |-> NoId, tempoX10 |-> 0, key |-> 0, mode |-> 0]

PITCH_CLASSES == <<"C", "C#", "D", "D#", "E", "F", "F#", "G", "G#", "A", "A#", "B">>

\* PITCH_CLASSES[audioFeatures.key] inside a template literal
PitchName(k) == IF k \in 0..11 THEN PITCH_CLASSES[k + 1] ELSE "undefined"

EstimatedKeys ==
    <<"C major", "G major", "D major", "A major", "E major", "F major", "Bb major",
      "A minor", "E minor", "B minor", "F# minor", "C# minor", "D minor", "G minor">>

SearchEstimatedKeys ==
    <<"C major", "G major", "D major", "A major", "E major", "F major", "Bb major",
      "A minor", "E minor", "B minor", "F# minor", "C# minor", "D minor", "G minor">>

\* compatible route: convertSpotifyTrackToSong
convertSpotifyTrackToSong(track, audioFeatures) ==
    LET hash == NameHash(track)
    IN [id |-> track.id,
        title |-> track.name,
        artist |-> JoinNames(track.artists),
        bpm |-> IF audioFeatures.present
                THEN MathRoundX10(audioFeatures.tempoX10)
                ELSE PseudoBpmBase + (hash % PseudoBpmSpan),
        key |-> IF audioFeatures.present
                THEN PitchName(audioFeatures.key)
                     \o (IF audioFeatures.mode = 1 THEN " major" ELSE " minor")
                ELSE EstimatedKeys[(hash % Len(EstimatedKeys)) + 1],
        duration |-> MathRoundMs(track.duration_ms),
        source |-> IF audioFeatures.present THEN "spotify" ELSE "spotify-estimated"]

\* the key list of musicService.generateFallbackFeatures
ServiceEstimatedKeys ==
    <<"C major", "G major", "D major", "A major", "E major", "B major", "F# major",
      "C# major", "F major", "Bb major", "Eb major", "Ab major", "Db major",
      "A minor", "E minor", "B minor", "F# minor", "C# minor", "G# minor",
      "D# minor", "D minor", "G minor", "C minor", "F minor", "Bb minor">>

\* variant: the search route estimates the key from the service's longer key list
searchConvertServiceKeys(track, audioFeatures) ==
    LET hash == NameHash(track)
    IN [id |-> track.id,
        title |-> track.name,
        artist |-> JoinNames(track.artists),
        bpm |-> IF audioFeatures.present
                THEN MathRoundX10(audioFeatures.tempoX10)
                ELSE PseudoBpmBase + (hash % PseudoBpmSpan),
        key |-> IF audioFeatures.present
                THEN PitchName(audioFeatures.key)
                     \o (IF audioFeatures.mode = 1 THEN "" ELSE "m")
                ELSE ServiceEstimatedKeys[(hash % Len(ServiceEstimatedKeys)) + 1],
        duration |-> MathRoundMs(track.duration_ms),
        source |-> IF audioFeatures.present THEN "spotify" ELSE "spotify-estimated"]

\* search route: convertSpotifyTrackToSong
searchConvertSpotifyTrackToSong(track, audioFeatures) ==
    LET hash == NameHash(track)
    IN [id |-> track.id,
        title |-> track.name,
        artist |-> JoinNames(track.artists),
        bpm |-> IF audioFeatures.present
                THEN MathRoundX10(audioFeatures.tempoX10)
                ELSE PseudoBpmBase + (hash % PseudoBpmSpan),
        key |-> IF audioFeatures.present
                THEN PitchName(audioFeatures.key)
                     \o (IF audioFeatures.mode = 1 THEN "" ELSE "m")
                ELSE SearchEstimatedKeys[(hash % Len(SearchEstimatedKeys)) + 1],
        duration |-> MathRoundMs(track.duration_ms),
        source |-> IF audioFeatures.present THEN "spotify" ELSE "spotify-estimated"]

(***************************************************************************)
(* Tempo matching of one candidate (the body of the .map callback)         *)
(***************************************************************************)
\* variant: the tolerance test of the near match is strict
MeasuredBpmMatchStrict(actualBpm, bpm) ==
    IF \/ actualBpm = bpm
       \/ actualBpm = bpm * 2
       \/ actualBpm = MathRoundHalf(bpm)
       \/ MathRoundHalf(actualBpm) = bpm
    THEN [bpmMatch |-> TRUE, bpmDifference |-> 0]
    ELSE IF Abs(actualBpm - bpm) < BpmTolerance
    THEN [bpmMatch |-> TRUE, bpmDifference |-> Abs(actualBpm - bpm)]
    ELSE IF Abs(actualBpm - bpm * 2) <= BpmTolerance
    THEN [bpmMatch |-> TRUE, bpmDifference |-> Abs(actualBpm - bpm * 2)]
    ELSE IF Abs(actualBpm - MathRoundHalf(bpm)) <= BpmTolerance
    THEN [bpmMatch |-> TRUE, bpmDifference |-> Abs(actualBpm - MathRoundHalf(bpm))]
    ELSE [bpmMatch |-> FALSE, bpmDifference |-> NoDifference]

\* the branch taken when audio features were found for the track
MeasuredBpmMatch(actualBpm, bpm) ==
    IF \/ actualBpm = bpm
       \/ actualBpm = bpm * 2
       \/ actualBpm = MathRoundHalf(bpm)
       \/ MathRoundHalf(actualBpm) = bpm
    THEN [bpmMatch |-> TRUE, bpmDifference |-> 0]
    ELSE IF Abs(actualBpm - bpm) <= BpmTolerance
    THEN [bpmMatch |-> TRUE, bpmDifference |-> Abs(actualBpm - bpm)]
    ELSE IF Abs(actualBpm - bpm * 2) <= BpmTolerance
    THEN [bpmMatch |-> TRUE, bpmDifference |-> Abs(actualBpm - bpm * 2)]
    ELSE IF Abs(actualBpm - MathRoundHalf(bpm)) <= BpmTolerance
    THEN [bpmMatch |-> TRUE, bpmDifference |-> Abs(actualBpm - MathRoundHalf(bpm))]
    ELSE [bpmMatch |-> FALSE, bpmDifference |-> NoDifference]

\* variant: a match leaves bpmDifference at its initial value
EstimatedBpmMatchNoDistance(songBpm, bpm) ==
    IF /\ songBpm # 0
       /\ \/ songBpm = bpm
          \/ songBpm = bpm * 2
          \/ songBpm = MathRoundHalf(bpm)
          \/ Abs(songBpm - bpm) <= BpmTolerance
    THEN [bpmMatch |-> TRUE, bpmDifference |-> NoDifference]
    ELSE [bpmMatch |-> FALSE, bpmDifference |-> NoDifference]

\* the branch taken when the track has estimated features only
EstimatedBpmMatch(songBpm, bpm) ==
    IF /\ songBpm # 0
       /\ \/ songBpm = bpm
          \/ songBpm = bpm * 2
          \/ songBpm = MathRoundHalf(bpm)
          \/ Abs(songBpm - bpm) <= BpmTolerance
    THEN [bpmMatch |-> TRUE, bpmDifference |-> Abs(songBpm - bpm)]
    ELSE [bpmMatch |-> FALSE, bpmDifference |-> NoDifference]

MatchEntry(track, audioFeaturesData, bpm) ==
    LET found == {i \in 1..Len(audioFeaturesData) : audioFeaturesData[i].id = track.id}
        audioFeatures == IF found = {} THEN NoFeatures
                         ELSE audioFeaturesData[CHOOSE i \in found : \A j \in found : i <= j]
        song == convertSpotifyTrackToSong(track, audioFeatures)
        m == IF audioFeatures.present
             THEN MeasuredBpmMatch(MathRoundX10(audioFeatures.tempoX10), bpm)
             ELSE EstimatedBpmMatch(song.bpm, bpm)
    IN [song |-> song,
        bpmMatch |-> m.bpmMatch,
        bpmDifference |-> m.bpmDifference,
        hasRealFeatures |-> audioFeatures.present,
        actualBpm |-> IF audioFeatures.present
                      THEN MathRoundX10(audioFeatures.tempoX10)
                      ELSE song.bpm]

(***************************************************************************)
(* Key compatibility lookups                                               *)
(***************************************************************************)
\* musicService.getCompatibleKeys: the keyCompatibility object literal
ServiceKeyCompatibility ==
    << <<"C major", <<"A minor", "F major", "G major", "D minor", "E minor">> >>,
       <<"G major", <<"E minor", "C major", "D major", "A minor", "B minor">> >>,
       <<"D major", <<"B minor", "G major", "A major", "E minor", "F# minor">> >>,
       <<"A major", <<"F# minor", "D major", "E major", "B minor", "C# minor">> >>,
       <<"E major", <<"C# minor", "A major", "B major", "F# minor", "G# minor">> >>,
       <<"B major", <<"G# minor", "E major", "F# major", "C# minor", "D# minor">> >>,
       <<"F# major", <<"D# minor", "B major", "C# major", "G# minor", "A# minor">> >>,
       <<"C# major", <<"A# minor", "F# major", "G# major", "D# minor", "F minor">> >>,
       <<"F major", <<"D minor", "C major", "Bb major", "A minor", "G minor">> >>,
       <<"Bb major", <<"G minor", "F major", "Eb major", "D minor", "C minor">> >>,
       <<"Eb major", <<"C minor", "Bb major", "Ab major", "G minor", "F minor">> >>,
       <<"Ab major", <<"F minor", "Eb major", "Db major", "C minor", "Bb minor">> >>,
       <<"Db major", <<"Bb minor", "Ab major", "Gb major", "F minor", "Eb minor">> >>,
       <<"A minor", <<"C major", "F major", "G major", "D minor", "E minor">> >>,
       <<"E minor", <<"G major", "C major", "D major", "A minor", "B minor">> >>,
       <<"B minor", <<"D major", "G major", "A major", "E minor", "F# minor">> >>,
       <<"F# minor", <<"A major", "D major", "E major", "B minor", "C# minor">> >>,
       <<"C# minor", <<"E major", "A major", "B major", "F# minor", "G# minor">> >>,
       <<"G# minor", <<"B major", "E major", "F# major", "C# minor", "D# minor">> >>,
       <<"D# minor", <<"F# major", "B major", "C# major", "G# minor", "A# minor">> >>,
       <<"A# minor", <<"C# major", "F# major", "D# major", "D# minor", "F minor">> >>,
       <<"D minor", <<"F major", "C major", "Bb major", "A minor", "G minor">> >>,
       <<"G minor", <<"Bb major", "F major", "Eb major", "D minor", "C minor">> >>,
       <<"C minor", <<"Eb major", "Bb major", "Ab major", "G minor", "F minor">> >>,
       <<"F minor", <<"Ab major", "Eb major", "Db major", "C minor", "Bb minor">> >>,
       <<"Bb minor", <<"Db major", "Ab major", "Gb major", "F minor", "Eb minor">> >> >>

\* compatible route getCompatibleKeys: the keyCompatibility object literal
RouteKeyCompatibility ==
    << <<"C major", <<"A minor", "F major", "G major", "D minor", "E minor">> >>,
       <<"G major", <<"E minor", "C major", "D major", "A minor", "B minor">> >>,
       <<"D major", <<"B minor", "G major", "A major", "E minor", "F# minor">> >>,
       <<"A major", <<"F# minor", "D major", "E major", "B minor", "C# minor">> >>,
       <<"E major", <<"C# minor", "A major", "B major", "F# minor", "G# minor">> >>,
       <<"F major", <<"D minor", "C major", "Bb major", "A minor", "G minor">> >>,
       <<"Bb major", <<"G minor", "F major", "Eb major", "D minor", "C minor">> >>,
       <<"A minor", <<"C major", "F major", "G major", "D minor", "E minor">> >>,
       <<"E minor", <<"G major", "C major", "D major", "A minor", "B minor">> >>,
       <<"B minor", <<"D major", "G major", "A major", "E minor", "F# minor">> >>,
       <<"F# minor", <<"A major", "D major", "E major", "B minor", "C# minor">> >>,
       <<"C# minor", <<"E major", "A major", "B major", "F# minor", "G# minor">> >>,
       <<"D minor", <<"F major", "C major", "Bb major", "A minor", "G minor">> >>,
       <<"G minor", <<"Bb major", "F major", "Eb major", "D minor", "C minor">> >> >>

\* property names every object literal inherits from Object.prototype
ObjectPrototypeKeys ==
    {"constructor", "toString", "valueOf", "hasOwnProperty", "isPrototypeOf",
     "propertyIsEnumerable", "toLocaleString", "__proto__"}

TableKeys(table) == {table[i][1] : i \in 1..Len(table)}

\* keyCompatibility[key] || [key]: an own property is the listed array; an
\* inherited one is a truthy value that is no array of keys
KeyLookup(table, key) ==
    LET own == {i \in 1..Len(table) : table[i][1] = key}
    IN IF own # {}
       THEN [isArray |-> TRUE, keys |-> table[CHOOSE i \in own : \A j \in own : i >= j][2]]
       ELSE IF key \in ObjectPrototypeKeys
       THEN [isArray |-> FALSE, keys |-> <<>>]
       ELSE [isArray |-> TRUE, keys |-> <<key>>]

\* musicService.getCompatibleKeys
getCompatibleKeys(key) == KeyLookup(ServiceKeyCompatibility, key)

\* compatible route: getCompatibleKeys
routeGetCompatibleKeys(targetKey) == KeyLookup(RouteKeyCompatibility, targetKey)

(***************************************************************************)
(* Token cache (one copy per route module)                                 *)
(***************************************************************************)
EmptyCache == [spotifyToken |-> NoToken, tokenExpiresAt |-> 0]

\* getSpotifyToken: the value returned (or the throw) and the cache it leaves
getSpotifyToken(cache, e, t) ==
    IF cache.spotifyToken # NoToken /\ t < cache.tokenExpiresAt
    THEN [ok |-> TRUE, token |-> cache.spotifyToken, cache |-> cache, fetched |-> FALSE]
    ELSE IF ~e.credentials
    THEN [ok |-> FALSE, token |-> NoToken, cache |-> cache, fetched |-> FALSE]
    ELSE IF ~e.tokenOk
    THEN [ok |-> FALSE, token |-> NoToken, cache |-> cache, fetched |-> TRUE]
    ELSE [ok |-> TRUE, token |-> e.access_token,
          cache |-> [spotifyToken |-> e.access_token,
                     tokenExpiresAt |-> t + (e.expires_in - EarlyRefreshSec) * 1000],
          fetched |-> TRUE]

(***************************************************************************)
(* Request parameters                                                      *)
(***************************************************************************)
\* parseInt(searchParams.get('bpm') || '0')
ParseBpm(p) ==
    IF p.kind = "int" THEN [nan |-> FALSE, val |-> p.val]
    ELSE IF p.kind = "absent" THEN [nan |-> FALSE, val |-> 0]
    ELSE [nan |-> TRUE, val |-> 0]

\* !bpm
BpmMissing(b) == b.nan \/ b.val = 0

BaseTermDefaults ==
    <<"pop", "rock", "hip hop", "electronic", "dance", "indie", "alternative",
      "r&b", "reggaeton", "latin", "jazz", "funk", "house", "techno">>

GenreDefaults ==
    <<"pop", "rock", "hip-hop", "electronic", "dance", "indie", "alternative",
      "r-n-b", "reggaeton", "latin", "jazz", "funk", "house", "techno", "country">>

\* the searchQueries array, before .slice(0, 8)
SearchQueries(genre, searchTerms) ==
    LET baseTerms == Slice(IF searchTerms # "" THEN <<searchTerms>> ELSE BaseTermDefaults,
                           TermLimit)
        genres == Slice(IF genre # "" THEN <<genre>> ELSE GenreDefaults, GenreLimit)
        pair(t, g) == <<[term |-> t, genre |-> g, year |-> "2020-2024"],
                        [term |-> t, genre |-> g, year |-> "2015-2019"]>>
        perTerm(t) == Flatten([j \in 1..Len(genres) |-> pair(t, genres[j])])
        combined == Flatten([i \in 1..Len(baseTerms) |-> perTerm(baseTerms[i])])
        broader == IF searchTerms = "" THEN <<>>
                   ELSE <<[term |-> searchTerms, genre |-> "", year |-> ""]>>
                        \o (IF genre = "" THEN <<>>
                            ELSE <<[term |-> searchTerms, genre |-> genre, year |-> ""]>>)
    IN combined \o broader

(***************************************************************************)
(* The provider                                                            *)
(***************************************************************************)
\* the answer to the i-th search call of a request, cut to the call's limit
ProviderSearch(w, i, limit) ==
    IF i <= Len(w.searches)
    THEN [ok |-> w.searches[i].ok, items |-> Slice(w.searches[i].items, limit)]
    ELSE [ok |-> TRUE, items |-> <<>>]

\* one element of the audio_features array: the features of id, or null
ProviderFeatures(w, id) ==
    IF \E f \in w.features : f.id = id
    THEN CHOOSE f \in w.features : f.id = id
    ELSE NoFeatures

(***************************************************************************)
(* Compatible route: filters, ranking                                      *)
(***************************************************************************)
\* the two .filter calls on a search response's items
FilterItems(items, excludeId) ==
    LET notExcluded(track) == track.id # excludeId
        isMusic(track) ==
            /\ ~track.nonMusic
            /\ track.duration_ms >= MinDurationMs
            /\ track.duration_ms <= MaxDurationMs
    IN SelectSeq(SelectSeq(items, notExcluded), isMusic)

\* variant: every collected track is kept
UniqueTracksKeepAll(allTracks) == allTracks

\* allTracks.filter((track, index, self) => index === self.findIndex(t => t.id === track.id))
UniqueTracks(allTracks) ==
    KeepAt(allTracks,
           {i \in 1..Len(allTracks) : \A j \in 1..(i - 1) : allTracks[j].id # allTracks[i].id},
           1)

\* variant: the comparator orders by descending difference
CompareDescending(a, b) ==
    IF a.bpmDifference # b.bpmDifference THEN b.bpmDifference - a.bpmDifference
    ELSE IF a.hasRealFeatures /\ ~b.hasRealFeatures THEN -1
    ELSE IF ~a.hasRealFeatures /\ b.hasRealFeatures THEN 1
    ELSE 0

\* variant: the comparator ignores whether the features are real
CompareNoTieBreak(a, b) == a.bpmDifference - b.bpmDifference

\* the comparator passed to .sort
Compare(a, b) ==
    IF a.bpmDifference # b.bpmDifference THEN a.bpmDifference - b.bpmDifference
    ELSE IF a.hasRealFeatures /\ ~b.hasRealFeatures THEN -1
    ELSE IF ~a.hasRealFeatures /\ b.hasRealFeatures THEN 1
    ELSE 0

\* Array.prototype.sort is stable: x goes after every element not greater than it
InsertSorted(sorted, x) ==
    LET after == {i \in 1..Len(sorted) : Compare(sorted[i], x) > 0}
        p == IF after = {} THEN Len(sorted) + 1
             ELSE CHOOSE i \in after : \A j \in after : i <= j
    IN SubSeq(sorted, 1, p - 1) \o <<x>> \o SubSeq(sorted, p, Len(sorted))

RECURSIVE SortFrom(_, _, _)
SortFrom(s, i, acc) ==
    IF i > Len(s) THEN acc
    ELSE LET next == InsertSorted(acc, s[i])
         IN IF next = <<>> THEN next ELSE SortFrom(s, i + 1, next)

SortEntries(s) == SortFrom(s, 1, <<>>)

\* variant: the slice keeps one entry too many
RankEntriesOffByOne(entries) ==
    LET isMatch(e) == e.bpmMatch
    IN Slice(SortEntries(SelectSeq(entries, isMatch)), ResultLimit + 1)

\* .filter(({ bpmMatch }) => bpmMatch).sort(...).slice(0, 25)
RankEntries(entries) ==
    LET isMatch(e) == e.bpmMatch
    IN Slice(SortEntries(SelectSeq(entries, isMatch)), ResultLimit)

\* variant: candidates are also filtered by compatibility with the key parameter
CompatibleRunKeyFiltered(bpm, key, genre, searchTerms, excludeId, w) ==
    LET queries == Slice(SearchQueries(genre, searchTerms), SearchCap)
        found(i) == LET r == ProviderSearch(w, i, SearchLimit)
                    IN IF r.ok THEN FilterItems(r.items, excludeId) ELSE <<>>
        allTracks == Flatten([i \in 1..Len(queries) |-> found(i)])
        uniqueTracks == UniqueTracks(allTracks)
        n == Len(uniqueTracks)
        nBatches == (n + BatchSize - 1) \div BatchSize
        batch(k) == SubSeq(uniqueTracks, (k - 1) * BatchSize + 1, Min(k * BatchSize, n))
        ids(k) == [i \in 1..Len(batch(k)) |-> batch(k)[i].id]
        failed == w.featFail \in 1..nBatches
        nCalled == IF failed THEN w.featFail ELSE nBatches
        nAnswered == IF failed THEN w.featFail - 1 ELSE nBatches
        notNull(f) == f.present
        answer(k) == SelectSeq([i \in 1..Len(ids(k)) |-> ProviderFeatures(w, ids(k)[i])],
                               notNull)
        audioFeaturesData == Flatten([k \in 1..nAnswered |-> answer(k)])
        entries == [i \in 1..n |-> MatchEntry(uniqueTracks[i], audioFeaturesData, bpm)]
        compatible == routeGetCompatibleKeys(key).keys
        keyOk(e) == \/ key = ""
                    \/ e.song.key = key
                    \/ \E j \in 1..Len(compatible) : compatible[j] = e.song.key
        top == RankEntries(SelectSeq(entries, keyOk))
    IN [issued |-> queries,
        batches |-> IF n = 0 THEN <<>> ELSE [k \in 1..nCalled |-> ids(k)],
        candidates |-> entries,
        ranked |-> IF n = 0 THEN <<>> ELSE top,
        tracks |-> IF n = 0 THEN <<>>
                   ELSE [i \in 1..Len(top) |-> [top[i].song EXCEPT !.bpm = top[i].actualBpm]]]

\* the body of the try block after the token was obtained
CompatibleRun(bpm, key, genre, searchTerms, excludeId, w) ==
    LET queries == Slice(SearchQueries(genre, searchTerms), SearchCap)
        found(i) == LET r == ProviderSearch(w, i, SearchLimit)
                    IN IF r.ok THEN FilterItems(r.items, excludeId) ELSE <<>>
        allTracks == Flatten([i \in 1..Len(queries) |-> found(i)])
        uniqueTracks == UniqueTracks(allTracks)
        n == Len(uniqueTracks)
        nBatches == (n + BatchSize - 1) \div BatchSize
        batch(k) == SubSeq(uniqueTracks, (k - 1) * BatchSize + 1, Min(k * BatchSize, n))
        ids(k) == [i \in 1..Len(batch(k)) |-> batch(k)[i].id]
        failed == w.featFail \in 1..nBatches
        nCalled == IF failed THEN w.featFail ELSE nBatches
        nAnswered == IF failed THEN w.featFail - 1 ELSE nBatches
        notNull(f) == f.present
        answer(k) == SelectSeq([i \in 1..Len(ids(k)) |-> ProviderFeatures(w, ids(k)[i])],
                               notNull)
        audioFeaturesData == Flatten([k \in 1..nAnswered |-> answer(k)])
        entries == [i \in 1..n |-> MatchEntry(uniqueTracks[i], audioFeaturesData, bpm)]
        top == RankEntries(entries)
    IN [issued |-> queries,
        batches |-> IF n = 0 THEN <<>> ELSE [k \in 1..nCalled |-> ids(k)],
        candidates |-> entries,
        ranked |-> IF n = 0 THEN <<>> ELSE top,
        tracks |-> IF n = 0 THEN <<>>
                   ELSE [i \in 1..Len(top) |-> [top[i].song EXCEPT !.bpm = top[i].actualBpm]]]

Pending == [status |-> 0, error |-> FALSE, tracks |-> <<>>]

\* GET /api/compatible: the response, the token cache it leaves, and the
\* intermediate values of the try block when it was entered
CompatibleOutcome(req, cache, e, t, w) ==
    LET bpm == ParseBpm(req.bpm)
        tok == getSpotifyToken(cache, e, t)
        run == CompatibleRun(bpm.val, req.key, req.genre, req.search, req.excludeId, w)
    IN IF BpmMissing(bpm)
       THEN [response |-> [status |-> 400, error |-> TRUE, tracks |-> <<>>],
             cache |-> cache, ran |-> FALSE, run |-> <<>>]
       ELSE IF ~tok.ok
       THEN [response |-> [status |-> 500, error |-> TRUE, tracks |-> <<>>],
             cache |-> tok.cache, ran |-> FALSE, run |-> <<>>]
       ELSE [response |-> [status |-> 200, error |-> FALSE, tracks |-> run.tracks],
             cache |-> tok.cache, ran |-> TRUE, run |-> run]

\* what one run of the handler leaves behind
CompatibleHandled(o) ==
    /\ compatResponse' = o.response
    /\ compatToken' = o.cache
    /\ IF o.ran
       THEN /\ candidates' = o.run.candidates
            /\ ranked' = o.run.ranked
            /\ issued' = o.run.issued
            /\ batches' = o.run.batches
       ELSE UNCHANGED <<candidates, ranked, issued, batches>>

CompatibleGET ==
    /\ compatResponse = Pending
    /\ CompatibleHandled(CompatibleOutcome(request, compatToken, env, now, world))
    /\ UNCHANGED <<request, world, env, now>>
    /\ UNCHANGED searchVars
    /\ UNCHANGED keyVars
    /\ UNCHANGED <<svcVars, ytVars, tokVars, panelVars, uiVars>>

(***************************************************************************)
(* Search route                                                            *)
(***************************************************************************)
\* variant: a failing audio-features call fails the whole search
SearchRunFeaturesFatal(w) ==
    LET r == ProviderSearch(w, 1, SearchRouteLimit)
        tracks == r.items
        at(i) == ProviderFeatures(w, tracks[i].id)
    IN [ok |-> r.ok /\ w.featFail # 1,
        tracks |-> [i \in 1..Len(tracks) |-> searchConvertSpotifyTrackToSong(tracks[i], at(i))]]

\* the body of the try block after the token was obtained
SearchRun(w) ==
    LET r == ProviderSearch(w, 1, SearchRouteLimit)
        tracks == r.items
        audioFeaturesData ==
            IF w.featFail = 1 THEN <<>>
            ELSE [i \in 1..Len(tracks) |-> ProviderFeatures(w, tracks[i].id)]
        at(i) == IF i <= Len(audioFeaturesData) THEN audioFeaturesData[i] ELSE NoFeatures
    IN [ok |-> r.ok,
        tracks |-> [i \in 1..Len(tracks) |-> searchConvertSpotifyTrackToSong(tracks[i], at(i))]]

\* GET /api/search: the response and the token cache it leaves
SearchOutcome(req, cache, e, t, w) ==
    LET tok == getSpotifyToken(cache, e, t)
        run == SearchRun(w)
    IN IF req.q = <<>>
       THEN [response |-> [status |-> 400, error |-> TRUE, tracks |-> <<>>], cache |-> cache]
       ELSE IF ~tok.ok
       THEN [response |-> [status |-> 500, error |-> TRUE, tracks |-> <<>>],
             cache |-> tok.cache]
       ELSE [response |-> IF run.ok
                          THEN [status |-> 200, error |-> FALSE, tracks |-> run.tracks]
                          ELSE [status |-> 500, error |-> TRUE, tracks |-> <<>>],
             cache |-> tok.cache]

SearchGET ==
    /\ searchResponse = Pending
    /\ LET o == SearchOutcome(searchRequest, searchToken, env, now, world)
       IN /\ searchResponse' = o.response
          /\ searchToken' = o.cache
    /\ UNCHANGED searchRequest
    /\ UNCHANGED compatVars
    /\ UNCHANGED keyVars
    /\ UNCHANGED <<svcVars, ytVars, tokVars, panelVars, uiVars>>

(***************************************************************************)
(* Key compatibility lookups: the calls                                     *)
(***************************************************************************)
\* one call of either copy
CallGetCompatibleKeys ==
    /\ kCalls < MaxKeyCalls
    /\ kCalls' = kCalls + 1
    /\ kOut' = Append(kOut, IF kImpl = "service" THEN getCompatibleKeys(kIn)
                            ELSE routeGetCompatibleKeys(kIn))
    /\ UNCHANGED <<kIn, kImpl>>
    /\ UNCHANGED compatVars
    /\ UNCHANGED searchVars
    /\ UNCHANGED <<svcVars, ytVars, tokVars, panelVars, uiVars>>

(***************************************************************************)
(* Strings of the JavaScript runtime                                       *)
(***************************************************************************)
Max(a, b) == IF a > b THEN a ELSE b

\* String.prototype.toLowerCase, on the code units of A-Z
ToLowerCase(s) == [i \in 1..Len(s) |-> IF s[i] \in 65..90 THEN s[i] + 32 ELSE s[i]]

\* String.prototype.includes
Includes(s, sub) ==
    \E i \in 0..(Len(s) - Len(sub)) : SubSeq(s, i + 1, i + Len(sub)) = sub

\* String.prototype.startsWith
StartsWith(s, prefix) ==
    Len(s) >= Len(prefix) /\ SubSeq(s, 1, Len(prefix)) = prefix

\* Array.prototype.slice(start, end)
JsSlice(s, start, end) ==
    LET n == Len(s)
        a == IF start < 0 THEN Max(n + start, 0) ELSE Min(start, n)
        b == IF end < 0 THEN Max(n + end, 0) ELSE Min(end, n)
    IN SubSeq(s, a + 1, b)

\* Number.prototype.toString of a non-negative integer
RECURSIVE Digits(_)
Digits(n) == IF n < 10 THEN <<48 + n>> ELSE Digits(n \div 10) \o <<48 + (n % 10)>>

\* s.toString().padStart(2, '0')
PadStart2(n) == IF n < 10 THEN <<48>> \o Digits(n) ELSE Digits(n)

(***************************************************************************)
(* musicService: the fallback catalog and the three methods                *)
(***************************************************************************)
FallbackSong(id, title, artist, bpm, key, duration, youtube_id) ==
    [id |-> id, title |-> title, artist |-> artist, bpm |-> bpm, key |-> key,
     duration |-> duration, youtube_id |-> youtube_id, dataSource |-> "fallback"]

FALLBACK_SONGS ==
    <<
      \* 'Blinding Lights', 'The Weeknd'
      FallbackSong(1, <<66, 108, 105, 110, 100, 105, 110, 103, 32, 76, 105, 103, 104, 116, 115>>,
                   <<84, 104, 101, 32, 87, 101, 101, 107, 110, 100>>,
                   171, "F# minor", 200, "4NRXx6U8ABQ"),
      \* 'Watermelon Sugar', 'Harry Styles'
      FallbackSong(2, <<87, 97, 116, 101, 114, 109, 101, 108, 111, 110, 32, 83, 117, 103, 97, 114>>,
                   <<72, 97, 114, 114, 121, 32, 83, 116, 121, 108, 101, 115>>,
                   95, "C major", 174, "E07s5ZYygMg"),
      \* 'Levitating', 'Dua Lipa'
      FallbackSong(3, <<76, 101, 118, 105, 116, 97, 116, 105, 110, 103>>,
                   <<68, 117, 97, 32, 76, 105, 112, 97>>,
                   103, "B major", 203, "TUVcZfQe-Kw"),
      \* 'Good 4 U', 'Olivia Rodrigo'
      FallbackSong(4, <<71, 111, 111, 100, 32, 52, 32, 85>>,
                   <<79, 108, 105, 118, 105, 97, 32, 82, 111, 100, 114, 105, 103, 111>>,
                   166, "A major", 178, "gNi_6U5Pm_o"),
      \* 'Stay', 'The Kid LAROI & Justin Bieber'
      FallbackSong(5, <<83, 116, 97, 121>>,
                   <<84, 104, 101, 32, 75, 105, 100, 32, 76, 65, 82, 79, 73, 32, 38, 32, 74, 117, 115, 116, 105, 110, 32, 66, 105, 101, 98, 101, 114>>,
                   95, "C major", 141, "kTJczUoc26U"),
      \* 'Bad Habits', 'Ed Sheeran'
      FallbackSong(6, <<66, 97, 100, 32, 72, 97, 98, 105, 116, 115>>,
                   <<69, 100, 32, 83, 104, 101, 101, 114, 97, 110>>,
                   126, "B minor", 231, "orJSJGHjBLI"),
      \* 'Industry Baby', 'Lil Nas X ft. Jack Harlow'
      FallbackSong(7, <<73, 110, 100, 117, 115, 116, 114, 121, 32, 66, 97, 98, 121>>,
                   <<76, 105, 108, 32, 78, 97, 115, 32, 88, 32, 102, 116, 46, 32, 74, 97, 99, 107, 32, 72, 97, 114, 108, 111, 119>>,
                   150, "D minor", 212, "UTHLKHL_whs"),
      \* 'Heat Waves', 'Glass Animals'
      FallbackSong(8, <<72, 101, 97, 116, 32, 87, 97, 118, 101, 115>>,
                   <<71, 108, 97, 115, 115, 32, 65, 110, 105, 109, 97, 108, 115>>,
                   80, "E minor", 238, "mRD0-GxqHVo")
    >>

\* the answer axios hands to the caller: the promise rejects when the request
\* did not reach the server or the status is outside 2xx
Unreachable == [reached |-> FALSE, status |-> 0, data |-> <<>>]

Http(status, data) == [reached |-> TRUE, status |-> status, data |-> data]

AxiosResolves(http) == http.reached /\ http.status >= 200 /\ http.status < 300

Fulfilled(value) == [state |-> "fulfilled", value |-> value]

Rejected == [state |-> "rejected", value |-> <<>>]

\* variant: searchSongs without its catch block
searchSongsNoCatch(query, page, limit, http) ==
    IF AxiosResolves(http)
    THEN Fulfilled([songs |-> http.data, total |-> Len(http.data), page |-> page])
    ELSE Rejected

\* variant: the fallback search compares without lower-casing
searchSongsCaseSensitive(query, page, limit, http) ==
    IF AxiosResolves(http)
    THEN Fulfilled([songs |-> http.data, total |-> Len(http.data), page |-> page])
    ELSE LET matches(song) == Includes(song.title, query) \/ Includes(song.artist, query)
             filtered == SelectSeq(FALLBACK_SONGS, matches)
             start == (page - 1) * limit
         IN Fulfilled([songs |-> JsSlice(filtered, start, start + limit),
                       total |-> Len(filtered),
                       page |-> page])

\* musicService.searchSongs, given the answer of GET /api/search
searchSongs(query, page, limit, http) ==
    IF AxiosResolves(http)
    THEN Fulfilled([songs |-> http.data, total |-> Len(http.data), page |-> page])
    ELSE LET q == ToLowerCase(query)
             matches(song) == \/ Includes(ToLowerCase(song.title), q)
                              \/ Includes(ToLowerCase(song.artist), q)
             filtered == SelectSeq(FALLBACK_SONGS, matches)
             start == (page - 1) * limit
         IN Fulfilled([songs |-> JsSlice(filtered, start, start + limit),
                       total |-> Len(filtered),
                       page |-> page])

\* the URLSearchParams of getSongsByBpmAndKey as the route reads them
CompatibleParams(bpm, key, excludeId, genre, searchTerms) ==
    [bpm |-> [kind |-> "int", val |-> bpm], key |-> key, excludeId |-> excludeId,
     genre |-> genre, search |-> searchTerms]

\* musicService.getSongsByBpmAndKey, given the answer of GET /api/compatible
getSongsByBpmAndKey(bpm, key, excludeId, http) ==
    IF AxiosResolves(http)
    THEN Fulfilled(http.data)
    ELSE LET matches(song) == /\ song.bpm = bpm
                              /\ (key = "" \/ song.key = key)
                              /\ song.id # excludeId
         IN Fulfilled(JsSlice(SelectSeq(FALLBACK_SONGS, matches), 0, FallbackLimit))

\* musicService.searchYouTubeVideos, given the answer of GET /api/youtube
searchYouTubeVideos(http) ==
    IF AxiosResolves(http) THEN Fulfilled(http.data) ELSE Fulfilled(<<>>)

(***************************************************************************)
(* Youtube route                                                           *)
(***************************************************************************)
NoPart == -1

\* a contentDetails.duration as the regular expression of parseDuration sees
\* it: whether 'PT' occurs, and the digits captured before H, M and S
IsoDuration(match, hours, minutes, seconds) ==
    [match |-> match, hours |-> hours, minutes |-> minutes, seconds |-> seconds]

\* parseDuration: PT4M13S -> 4:13
parseDuration(duration) ==
    LET h == IF duration.hours = NoPart THEN 0 ELSE duration.hours
        m == IF duration.minutes = NoPart THEN 0 ELSE duration.minutes
        s == IF duration.seconds = NoPart THEN 0 ELSE duration.seconds
    IN IF ~duration.match THEN <<48, 58, 48, 48>>
       ELSE IF h > 0 THEN Digits(h) \o <<58>> \o PadStart2(m) \o <<58>> \o PadStart2(s)
       ELSE Digits(m) \o <<58>> \o PadStart2(s)

\* type.charAt(0).toUpperCase() + type.slice(1)
Capitalize(s) ==
    IF s = <<>> THEN <<>>
    ELSE <<IF s[1] \in 97..122 THEN s[1] - 32 ELSE s[1]>> \o Tail(s)

Instrumental == <<105, 110, 115, 116, 114, 117, 109, 101, 110, 116, 97, 108>>

Acapella == <<97, 99, 97, 112, 101, 108, 108, 97>>

MockPrefix == <<109, 111, 99, 107>>

\* the descriptors returned when no API key is configured
MockWithoutKey(query, type) ==
    <<[id |-> MockPrefix \o <<49>>,
       title |-> query \o <<32, 40>> \o Capitalize(type) \o <<41>>,
       duration |-> <<51, 58, 52, 53>>,
       thumbnail |-> "https://img.youtube.com/vi/mock1/mqdefault.jpg"],
      [id |-> MockPrefix \o <<50>>,
       title |-> query \o <<32>> \o type \o <<32, 118, 101, 114, 115, 105, 111, 110>>,
       duration |-> <<52, 58, 49, 50>>,
       thumbnail |-> "https://img.youtube.com/vi/mock2/mqdefault.jpg"]>>

\* the descriptors returned by the catch block
MockOnError(query, type, t) ==
    <<[id |-> MockPrefix \o <<95>> \o Digits(t) \o <<95, 49>>,
       title |-> query \o <<32, 40>> \o Capitalize(type) \o <<41, 32, 45, 32, 77, 111, 99, 107>>,
       duration |-> <<51, 58, 52, 53>>,
       thumbnail |-> "https://img.youtube.com/vi/dQw4w9WgXcQ/mqdefault.jpg"],
      [id |-> MockPrefix \o <<95>> \o Digits(t) \o <<95, 50>>,
       title |-> query \o <<32>> \o type \o <<32, 118, 101, 114, 115, 105, 111, 110, 32, 45, 32, 77, 111, 99, 107>>,
       duration |-> <<52, 58, 49, 50>>,
       thumbnail |-> "https://img.youtube.com/vi/dQw4w9WgXcQ/mqdefault.jpg"]>>

\* the callback of videos.filter
KeepVideo(video, type) ==
    LET title == ToLowerCase(video.title)
    IN IF type = Instrumental
       THEN /\ ~Includes(title, Acapella)
            /\ ~Includes(title, <<108, 121, 114, 105, 99, 115>>)
            /\ ~Includes(title, <<114, 101, 97, 99, 116, 105, 111, 110>>)
            /\ ~Includes(title, <<114, 101, 118, 105, 101, 119>>)
       ELSE /\ Includes(title, Acapella) \/ Includes(title, <<118, 111, 99, 97, 108, 115, 32, 111, 110, 108, 121>>)
            /\ ~Includes(title, Instrumental)
            /\ ~Includes(title, <<114, 101, 97, 99, 116, 105, 111, 110>>)
            /\ ~Includes(title, <<114, 101, 118, 105, 101, 119>>)

\* the comparator of filteredVideos.sort
CompareVideos(a, b, type) ==
    LET aTitle == ToLowerCase(a.title)
        bTitle == ToLowerCase(b.title)
        second == IF type = Instrumental THEN Instrumental ELSE <<115, 116, 117, 100, 105, 111>>
        aOfficial == Includes(aTitle, <<111, 102, 102, 105, 99, 105, 97, 108>>) \/ Includes(aTitle, second)
        bOfficial == Includes(bTitle, <<111, 102, 102, 105, 99, 105, 97, 108>>) \/ Includes(bTitle, second)
        aKaraoke == Includes(aTitle, <<107, 97, 114, 97, 111, 107, 101>>)
        bKaraoke == Includes(bTitle, <<107, 97, 114, 97, 111, 107, 101>>)
    IN IF aOfficial /\ ~bOfficial THEN -1
       ELSE IF ~aOfficial /\ bOfficial THEN 1
       ELSE IF type = Instrumental /\ ~aKaraoke /\ bKaraoke THEN -1
       ELSE IF type = Instrumental /\ aKaraoke /\ ~bKaraoke THEN 1
       ELSE 0

\* Array.prototype.sort is stable: x goes after every element not greater than it
InsertVideo(sorted, x, type) ==
    LET after == {i \in 1..Len(sorted) : CompareVideos(sorted[i], x, type) > 0}
        p == IF after = {} THEN Len(sorted) + 1
             ELSE CHOOSE i \in after : \A j \in after : i <= j
    IN SubSeq(sorted, 1, p - 1) \o <<x>> \o SubSeq(sorted, p, Len(sorted))

RECURSIVE SortVideosFrom(_, _, _, _)
SortVideosFrom(s, i, acc, type) ==
    IF i > Len(s) THEN acc ELSE SortVideosFrom(s, i + 1, InsertVideo(acc, s[i], type), type)

YtPending == [status |-> 0, error |-> FALSE, videos |-> <<>>, providerCalls |-> 0]

YtJson(status, videos, providerCalls) ==
    [status |-> status, error |-> status # 200, videos |-> videos,
     providerCalls |-> providerCalls]

\* GET /api/youtube: the response and the number of provider calls made
YoutubeOutcome(req, e, yw, t) ==
    LET query == req.q
        type == IF req.type = <<>> THEN Instrumental ELSE req.type
        videos == Slice(yw.search.items, YtMaxResults)
        keep(video) == KeepVideo(video, type)
        bestVideos == Slice(SortVideosFrom(SelectSeq(videos, keep), 1, <<>>, type),
                            YtBestLimit)
        durations == yw.details.items
        result == [i \in 1..Len(bestVideos) |->
                      [id |-> bestVideos[i].videoId,
                       title |-> bestVideos[i].title,
                       duration |-> IF i <= Len(durations) THEN parseDuration(durations[i])
                                    ELSE <<48, 58, 48, 48>>,
                       thumbnail |-> bestVideos[i].thumbnail]]
    IN IF query = <<>> THEN YtJson(400, <<>>, 0)
       ELSE IF ~e.apiKey THEN YtJson(200, MockWithoutKey(query, type), 0)
       ELSE IF ~yw.search.ok
       THEN YtJson(200, MockOnError(query, type, t), 1)
       ELSE IF Len(videos) = 0 THEN YtJson(200, <<>>, 1)
       ELSE IF ~yw.details.ok THEN YtJson(200, MockOnError(query, type, t), 2)
       ELSE YtJson(200, result, 2)

YoutubeGET ==
    /\ ytResponse = YtPending
    /\ ytResponse' = YoutubeOutcome(ytRequest, ytEnv, ytWorld, now)
    /\ UNCHANGED <<ytRequest, ytEnv, ytWorld>>
    /\ UNCHANGED compatVars
    /\ UNCHANGED searchVars
    /\ UNCHANGED keyVars
    /\ UNCHANGED <<svcVars, tokVars, panelVars, uiVars>>

(***************************************************************************)
(* musicService: the calls                                                 *)
(***************************************************************************)
SvcPending == [state |-> "pending", value |-> <<>>]

\* searchSongs(query, page, limit) and the GET /api/search it sends
ServiceSearchSongs ==
    /\ svcCall.method = "searchSongs"
    /\ svcResult = SvcPending
    /\ LET req == [q |-> svcCall.query]
           o == SearchOutcome(req, searchToken, env, now, world)
           http == IF svcCall.online THEN Http(o.response.status, o.response.tracks)
                   ELSE Unreachable
       IN /\ svcResult' = searchSongs(svcCall.query, svcCall.page, svcCall.limit, http)
          /\ IF svcCall.online
             THEN /\ searchRequest' = req
                  /\ searchResponse' = o.response
                  /\ searchToken' = o.cache
             ELSE UNCHANGED searchVars
    /\ UNCHANGED <<svcCall, svcEvents>>
    /\ UNCHANGED compatVars
    /\ UNCHANGED keyVars
    /\ UNCHANGED <<ytVars, tokVars, panelVars, uiVars>>

\* getSongsByBpmAndKey(bpm, key, excludeId, genre, searchTerms) and the
\* GET /api/compatible it sends
ServiceGetSongsByBpmAndKey ==
    /\ svcCall.method = "getSongsByBpmAndKey"
    /\ svcResult = SvcPending
    /\ LET req == CompatibleParams(svcCall.bpm, svcCall.key, svcCall.excludeId,
                                   svcCall.genre, svcCall.searchTerms)
           o == CompatibleOutcome(req, compatToken, env, now, world)
           http == IF svcCall.online THEN Http(o.response.status, o.response.tracks)
                   ELSE Unreachable
       IN /\ svcResult' = getSongsByBpmAndKey(svcCall.bpm, svcCall.key, svcCall.excludeId,
                                              http)
          /\ IF svcCall.online
             THEN /\ request' = req
                  /\ CompatibleHandled(o)
             ELSE UNCHANGED <<request, compatToken, compatResponse, candidates, ranked,
                              issued, batches>>
    /\ UNCHANGED <<world, env, now>>
    /\ UNCHANGED <<svcCall, svcEvents>>
    /\ UNCHANGED searchVars
    /\ UNCHANGED keyVars
    /\ UNCHANGED <<ytVars, tokVars, panelVars, uiVars>>

\* searchYouTubeVideos(query, type) and the GET /api/youtube it sends
ServiceSearchYouTubeVideos ==
    /\ svcCall.method = "searchYouTubeVideos"
    /\ svcResult = SvcPending
    /\ LET req == [q |-> svcCall.query, type |-> svcCall.type]
           o == YoutubeOutcome(req, ytEnv, ytWorld, now)
           http == IF svcCall.online THEN Http(o.status, o.videos) ELSE Unreachable
       IN /\ svcResult' = searchYouTubeVideos(http)
          /\ IF svcCall.online
             THEN /\ ytRequest' = req
                  /\ ytResponse' = o
             ELSE UNCHANGED <<ytRequest, ytResponse>>
    /\ svcEvents' = Append(svcEvents, [type |-> "youtube-quota-used",
                                       units |-> QuotaUnitsPerSearch])
    /\ UNCHANGED <<svcCall, ytEnv, ytWorld>>
    /\ UNCHANGED compatVars
    /\ UNCHANGED searchVars
    /\ UNCHANGED keyVars
    /\ UNCHANGED <<tokVars, panelVars, uiVars>>

(***************************************************************************)
(* getSpotifyToken, step by step: the call up to the await, the response   *)
(***************************************************************************)
\* the time before the actual expiry at which a copy stops using its token
RefreshMarginMs(impl) ==
    IF impl = "service" THEN ServiceEarlyRefreshMs ELSE EarlyRefreshSec * 1000

\* spotifyToken && Date.now() < tokenExpiresAt
TokenCached(cache, t) == cache.spotifyToken # NoToken /\ t < cache.tokenExpiresAt

\* variant: the expiry is recorded without a margin
StoreTokenNoMargin(cache, data, t, impl) ==
    [spotifyToken |-> data.access_token,
     tokenExpiresAt |-> t + data.expires_in * 1000]

\* variant: a response leaves an expiry that lies in the future as it is
StoreTokenKeepsExpiry(cache, data, t, impl) ==
    [spotifyToken |-> data.access_token,
     tokenExpiresAt |-> IF cache.tokenExpiresAt > t THEN cache.tokenExpiresAt
                        ELSE t + data.expires_in * 1000 - RefreshMarginMs(impl)]

\* the two assignments that follow the await
StoreToken(cache, data, t, impl) ==
    [spotifyToken |-> data.access_token,
     tokenExpiresAt |-> t + data.expires_in * 1000 - RefreshMarginMs(impl)]

Callers == 1..MaxCallers

IdleCall == [pc |-> "idle", token |-> NoToken, calls |-> 0, fetched |-> FALSE]

\* the number of calls of getSpotifyToken made so far
TokenCallsMade ==
    Cardinality({ck \in Callers \X (1..MaxTokenCalls) : ck[2] <= tokCalls[ck[1]].calls})

\* a caller enters getSpotifyToken: it returns the cached token, throws for
\* missing credentials, or sends the token request and awaits the answer
TokenCall(c) ==
    /\ tokCalls[c].pc # "awaiting"
    /\ TokenCallsMade < MaxTokenCalls
    /\ tokCalls' = [tokCalls EXCEPT ![c] =
           [pc |-> IF TokenCached(tokCache, now) THEN "returned"
                   ELSE IF ~env.credentials THEN "threw"
                   ELSE "awaiting",
            token |-> IF TokenCached(tokCache, now) THEN tokCache.spotifyToken ELSE NoToken,
            calls |-> @.calls + 1,
            fetched |-> FALSE]]
    /\ UNCHANGED <<tokImpl, tokCache, tokLog>>
    /\ UNCHANGED compatVars
    /\ UNCHANGED searchVars
    /\ UNCHANGED keyVars
    /\ UNCHANGED <<svcVars, ytVars, panelVars, uiVars>>

\* variant: a failed token request drops the cached token
TokenResponseDropsToken(c) ==
    /\ tokCalls[c].pc = "awaiting"
    /\ IF env.tokenOk
       THEN LET data == [access_token |-> env.access_token + Len(tokLog),
                         expires_in |-> env.expires_in]
                stored == StoreToken(tokCache, data, now, tokImpl)
            IN /\ tokCache' = stored
               /\ tokCalls' = [tokCalls EXCEPT ![c].pc = "returned",
                                               ![c].token = stored.spotifyToken,
                                               ![c].fetched = TRUE]
               /\ tokLog' = Append(tokLog,
                      [caller |-> c,
                       access_token |-> data.access_token,
                       expires_in |-> data.expires_in,
                       at |-> now,
                       recorded |-> stored.tokenExpiresAt,
                       overlapped |-> \E d \in Callers \ {c} : tokCalls[d].pc = "awaiting"])
       ELSE /\ tokCalls' = [tokCalls EXCEPT ![c].pc = "threw"]
            /\ tokCache' = EmptyCache
            /\ UNCHANGED tokLog
    /\ UNCHANGED tokImpl
    /\ UNCHANGED compatVars
    /\ UNCHANGED searchVars
    /\ UNCHANGED keyVars
    /\ UNCHANGED <<svcVars, ytVars, panelVars, uiVars>>

\* the token endpoint answers the request of caller c
TokenResponse(c) ==
    /\ tokCalls[c].pc = "awaiting"
    /\ IF env.tokenOk
       THEN LET data == [access_token |-> env.access_token + Len(tokLog),
                         expires_in |-> env.expires_in]
                stored == StoreToken(tokCache, data, now, tokImpl)
            IN /\ tokCache' = stored
               /\ tokCalls' = [tokCalls EXCEPT ![c].pc = "returned",
                                               ![c].token = stored.spotifyToken,
                                               ![c].fetched = TRUE]
               /\ tokLog' = Append(tokLog,
                      [caller |-> c,
                       access_token |-> data.access_token,
                       expires_in |-> data.expires_in,
                       at |-> now,
                       recorded |-> stored.tokenExpiresAt,
                       overlapped |-> \E d \in Callers \ {c} : tokCalls[d].pc = "awaiting"])
       ELSE /\ tokCalls' = [tokCalls EXCEPT ![c].pc = "threw"]
            /\ UNCHANGED <<tokCache, tokLog>>
    /\ UNCHANGED tokImpl
    /\ UNCHANGED compatVars
    /\ UNCHANGED searchVars
    /\ UNCHANGED keyVars
    /\ UNCHANGED <<svcVars, ytVars, panelVars, uiVars>>

\* the instants, after Now0, at which a call or a response is observed
Instants ==
    {Now0 + d : d \in {1000, 2000, 3299000, 3300000, 3301000, 3539000, 3540000, 3541000}}

\* time passes
Tick ==
    /\ \E t \in Instants : t > now /\ now' = t
    /\ UNCHANGED <<request, world, env, compatToken, compatResponse, candidates, ranked,
                   issued, batches>>
    /\ UNCHANGED searchVars
    /\ UNCHANGED keyVars
    /\ UNCHANGED <<svcVars, ytVars, tokVars, panelVars, uiVars>>

(***************************************************************************)
(* SearchPanel: performSearch, loadFilteredSongs and their continuations   *)
(***************************************************************************)
NoResults == [request |-> 0, arg |-> <<>>]

\* what the service call number k resolves to
ResultsOf(requests, k) == [request |-> k, arg |-> requests[k].arg]

\* String.prototype.trim, on spaces
RECURSIVE TrimStart(_)
TrimStart(s) == IF s # <<>> /\ Head(s) = 32 THEN TrimStart(Tail(s)) ELSE s

RECURSIVE TrimEnd(_)
TrimEnd(s) == IF s # <<>> /\ s[Len(s)] = 32 THEN TrimEnd(SubSeq(s, 1, Len(s) - 1)) ELSE s

Trim(s) == TrimEnd(TrimStart(s))

InFlight(requests) == {k \in 1..Len(requests) : ~requests[k].settled}

\* variant: the continuation of a superseded call leaves the state as it is
DisplayedUnlessSuperseded(current, requests, k) ==
    IF \E j \in (k + 1)..Len(requests) : requests[j].kind = requests[k].kind
    THEN current
    ELSE ResultsOf(requests, k)

\* the value setSearchResults / setFilteredSongs receives after the await
Displayed(current, requests, k) == ResultsOf(requests, k)

\* performSearch(query)
PerformSearch(query) ==
    /\ panelProps.filterBpm = 0
    /\ Len(panelRequests) < MaxPanelRequests
    /\ IF Trim(query) = <<>>
       THEN /\ searchResults' = NoResults
            /\ UNCHANGED <<panelRequests, loading>>
       ELSE /\ loading' = TRUE
            /\ panelRequests' = Append(panelRequests,
                   [kind |-> "search", arg |-> query, settled |-> FALSE])
            /\ UNCHANGED searchResults
    /\ UNCHANGED <<panelProps, filteredSongs>>
    /\ UNCHANGED compatVars
    /\ UNCHANGED searchVars
    /\ UNCHANGED keyVars
    /\ UNCHANGED <<svcVars, ytVars, tokVars, uiVars>>

\* the promise of musicService.searchSongs resolves for call k
SearchSettles(k) ==
    /\ k \in InFlight(panelRequests)
    /\ panelRequests[k].kind = "search"
    /\ searchResults' = Displayed(searchResults, panelRequests, k)
    /\ loading' = FALSE
    /\ panelRequests' = [panelRequests EXCEPT ![k].settled = TRUE]
    /\ UNCHANGED <<panelProps, filteredSongs>>
    /\ UNCHANGED compatVars
    /\ UNCHANGED searchVars
    /\ UNCHANGED keyVars
    /\ UNCHANGED <<svcVars, ytVars, tokVars, uiVars>>

\* loadFilteredSongs(), run by the effect when searchTerms changed
LoadFilteredSongs(searchTerms) ==
    /\ panelProps.filterBpm # 0
    /\ Len(panelRequests) < MaxPanelRequests
    /\ loading' = TRUE
    /\ panelRequests' = Append(panelRequests,
           [kind |-> "compatible", arg |-> searchTerms, settled |-> FALSE])
    /\ UNCHANGED <<panelProps, searchResults, filteredSongs>>
    /\ UNCHANGED compatVars
    /\ UNCHANGED searchVars
    /\ UNCHANGED keyVars
    /\ UNCHANGED <<svcVars, ytVars, tokVars, uiVars>>

\* the promise of musicService.getSongsByBpmAndKey resolves for call k
FilteredSettles(k) ==
    /\ k \in InFlight(panelRequests)
    /\ panelRequests[k].kind = "compatible"
    /\ filteredSongs' = Displayed(filteredSongs, panelRequests, k)
    /\ loading' = FALSE
    /\ panelRequests' = [panelRequests EXCEPT ![k].settled = TRUE]
    /\ UNCHANGED <<panelProps, searchResults>>
    /\ UNCHANGED compatVars
    /\ UNCHANGED searchVars
    /\ UNCHANGED keyVars
    /\ UNCHANGED <<svcVars, ytVars, tokVars, uiVars>>

\* const displaySongs = filterBpm ? filteredSongs : (searchResults?.songs || [])
DisplaySongs == IF panelProps.filterBpm # 0 THEN filteredSongs ELSE searchResults

(***************************************************************************)
(* YouTubePlayer: the reset effect, performSearch and its continuation     *)
(***************************************************************************)
\* selectedVideo = null
NoVideo == [id |-> <<>>, title |-> <<>>, duration |-> <<>>, thumbnail |-> ""]

\* `${song.title}-${song.artist}-${type}`
CacheKey(title, artist, type) == title \o <<45>> \o artist \o <<45>> \o type

\* `${song.title} ${song.artist}`
VideoQuery(title, artist) == title \o <<32>> \o artist

CurrentKey == CacheKey(playerProps.title, playerProps.artist, playerProps.type)

\* videoCache.set(cacheKey, results)
CacheSet(cache, key, results) ==
    [k \in DOMAIN cache \cup {key} |-> IF k = key THEN results ELSE cache[k]]

\* setVideos(results); if (results.length > 0) setSelectedVideo(results[0])
StoreVideos(results, selected) ==
    [videos |-> results,
     selectedVideo |-> IF Len(results) > 0 THEN results[1] ELSE selected]

\* variant: an empty stored list counts as a miss
CacheHasNonEmpty(cache, key) == key \in DOMAIN cache /\ cache[key] # <<>>

\* videoCache.has(cacheKey)
CacheHas(cache, key) == key \in DOMAIN cache

\* the body of performSearch up to its return or its await
PlayerPerformSearch ==
    IF CacheHas(videoCache, CurrentKey)
    THEN LET stored == StoreVideos(videoCache[CurrentKey], selectedVideo)
         IN /\ playerVideos' = stored.videos
            /\ selectedVideo' = stored.selectedVideo
            /\ hasSearched' = TRUE
            /\ UNCHANGED <<playerLoading, playerRequests, svcEvents>>
    ELSE /\ Len(playerRequests) < MaxPlayerRequests
         /\ playerLoading' = TRUE
         /\ playerRequests' = Append(playerRequests,
                [title |-> playerProps.title, artist |-> playerProps.artist,
                 type |-> playerProps.type, key |-> CurrentKey,
                 settled |-> FALSE, failed |-> FALSE, response |-> <<>>])
         /\ svcEvents' = Append(svcEvents, [type |-> "youtube-quota-used",
                                            units |-> QuotaUnitsPerSearch])
         /\ UNCHANGED <<playerVideos, selectedVideo, hasSearched>>

\* the props song or type change: the effect clears the timer, resets the
\* state and, with autoSearch, starts the 500 ms timer
PlayerSetProps(title, artist, type) ==
    /\ <<title, artist, type>> # <<playerProps.title, playerProps.artist, playerProps.type>>
    /\ playerProps' = [playerProps EXCEPT !.title = title, !.artist = artist, !.type = type]
    /\ hasSearched' = FALSE
    /\ playerVideos' = <<>>
    /\ selectedVideo' = NoVideo
    /\ searchTimeout' = (playerProps.autoSearch /\ title # <<>> /\ artist # <<>>)
    /\ UNCHANGED <<playerLoading, playerRequests, videoCache>>
    /\ UNCHANGED compatVars
    /\ UNCHANGED searchVars
    /\ UNCHANGED keyVars
    /\ UNCHANGED <<svcVars, ytVars, tokVars, panelVars, quotaVars, homeVars>>

\* the 500 ms timer fires and calls performSearch
PlayerTimerFires ==
    /\ searchTimeout
    /\ searchTimeout' = FALSE
    /\ PlayerPerformSearch
    /\ UNCHANGED <<playerProps, videoCache>>
    /\ UNCHANGED compatVars
    /\ UNCHANGED searchVars
    /\ UNCHANGED keyVars
    /\ UNCHANGED <<svcCall, svcResult, ytVars, tokVars, panelVars, quotaVars, homeVars>>

\* the search button, rendered when nothing was searched yet, is clicked
PlayerClickSearch ==
    /\ ~playerLoading
    /\ ~hasSearched
    /\ ~playerProps.autoSearch
    /\ playerProps.title # <<>>
    /\ playerProps.artist # <<>>
    /\ PlayerPerformSearch
    /\ UNCHANGED <<playerProps, searchTimeout, videoCache>>
    /\ UNCHANGED compatVars
    /\ UNCHANGED searchVars
    /\ UNCHANGED keyVars
    /\ UNCHANGED <<svcCall, svcResult, ytVars, tokVars, panelVars, quotaVars, homeVars>>

\* the promise of musicService.searchYouTubeVideos resolves for call k: the
\* route answered for the provider's answers yw, or could not be reached
PlayerResponse(k, yw, online) ==
    /\ k \in 1..Len(playerRequests)
    /\ ~playerRequests[k].settled
    /\ LET call == playerRequests[k]
           req == [q |-> VideoQuery(call.title, call.artist), type |-> call.type]
           o == YoutubeOutcome(req, [apiKey |-> TRUE], yw, now)
           http == IF online THEN Http(o.status, o.videos) ELSE Unreachable
           results == searchYouTubeVideos(http).value
           failed == \/ ~online
                     \/ ~yw.search.ok
                     \/ (Len(yw.search.items) > 0 /\ ~yw.details.ok)
           stored == StoreVideos(results, selectedVideo)
       IN /\ videoCache' = CacheSet(videoCache, call.key, results)
          /\ playerVideos' = stored.videos
          /\ selectedVideo' = stored.selectedVideo
          /\ playerRequests' = [playerRequests EXCEPT ![k].settled = TRUE,
                                                      ![k].failed = failed,
                                                      ![k].response = results]
    /\ hasSearched' = TRUE
    /\ playerLoading' = FALSE
    /\ UNCHANGED <<playerProps, searchTimeout>>
    /\ UNCHANGED compatVars
    /\ UNCHANGED searchVars
    /\ UNCHANGED keyVars
    /\ UNCHANGED <<svcVars, ytVars, tokVars, panelVars, quotaVars, homeVars>>

\* selectVideo(video), for a video of the list of other versions
SelectVideo(i) ==
    /\ ~playerLoading
    /\ selectedVideo # NoVideo
    /\ i \in 2..Len(playerVideos)
    /\ selectedVideo' = playerVideos[i]
    /\ UNCHANGED <<playerProps, playerVideos, playerLoading, hasSearched, searchTimeout,
                   playerRequests, videoCache>>
    /\ UNCHANGED compatVars
    /\ UNCHANGED searchVars
    /\ UNCHANGED keyVars
    /\ UNCHANGED <<svcVars, ytVars, tokVars, panelVars, quotaVars, homeVars>>

(***************************************************************************)
(* QuotaIndicator: the state initializer and the quota event handler       *)
(***************************************************************************)
\* localStorage.getItem('youtube-quota-usage') returns null
NothingStored == [present |-> FALSE, date |-> 0, usage |-> 0]

\* JSON.stringify({ date, usage }) stored under 'youtube-quota-usage'
StoredUsage(date, usage) == [present |-> TRUE, date |-> date, usage |-> usage]

\* the lazy initializer of useState: the usage to start from and the item it
\* leaves in localStorage
InitialUsage(stored, day) ==
    IF ~stored.present THEN [usage |-> 0, stored |-> stored]
    ELSE IF stored.date = day THEN [usage |-> stored.usage, stored |-> stored]
    ELSE [usage |-> 0, stored |-> StoredUsage(day, 0)]

\* the component mounts
QuotaMount ==
    /\ ~quotaMounted
    /\ quotaMounted' = TRUE
    /\ LET start == InitialUsage(quotaStored, today)
       IN /\ estimatedUsage' = start.usage
          /\ quotaStored' = start.stored
    /\ UNCHANGED <<today, quotaConsumed>>
    /\ UNCHANGED compatVars
    /\ UNCHANGED searchVars
    /\ UNCHANGED keyVars
    /\ UNCHANGED <<svcVars, ytVars, tokVars, panelVars, playerVars, homeVars>>

\* the page is left or reloaded: the component unmounts
QuotaUnmount ==
    /\ quotaMounted
    /\ quotaMounted' = FALSE
    /\ estimatedUsage' = 0
    /\ UNCHANGED <<today, quotaStored, quotaConsumed>>
    /\ UNCHANGED compatVars
    /\ UNCHANGED searchVars
    /\ UNCHANGED keyVars
    /\ UNCHANGED <<svcVars, ytVars, tokVars, panelVars, playerVars, homeVars>>

\* a 'youtube-quota-used' event is dispatched on window; handleQuotaUsage
\* runs when the component is mounted
QuotaUsed(units) ==
    /\ Len(quotaConsumed) < MaxQuotaEvents
    /\ quotaConsumed' = Append(quotaConsumed, [date |-> today, units |-> units])
    /\ IF quotaMounted
       THEN LET newUsage == estimatedUsage + units
            IN /\ estimatedUsage' = newUsage
               /\ quotaStored' = StoredUsage(today, newUsage)
       ELSE UNCHANGED <<estimatedUsage, quotaStored>>
    /\ UNCHANGED <<today, quotaMounted>>
    /\ UNCHANGED compatVars
    /\ UNCHANGED searchVars
    /\ UNCHANGED keyVars
    /\ UNCHANGED <<svcVars, ytVars, tokVars, panelVars, playerVars, homeVars>>

\* midnight passes: new Date().toDateString() changes
DayChanges ==
    /\ today < MaxDays
    /\ today' = today + 1
    /\ UNCHANGED <<quotaMounted, estimatedUsage, quotaStored, quotaConsumed>>
    /\ UNCHANGED compatVars
    /\ UNCHANGED searchVars
    /\ UNCHANGED keyVars
    /\ UNCHANGED <<svcVars, ytVars, tokVars, panelVars, playerVars, homeVars>>

(***************************************************************************)
(* Home: the two selections and the right panel they feed                  *)
(***************************************************************************)
\* useState<Song | null>(null)
NoSong == [id |-> NoId, bpm |-> 0, key |-> ""]

HomeSong(id, bpm, key) == [id |-> id, bpm |-> bpm, key |-> key]

\* the songs the endpoints know: tempos 120, 122, 90 and 240
HomeSongs ==
    {HomeSong(1, 120, "C major"), HomeSong(2, 122, "G major"),
     HomeSong(3, 90, "A minor"), HomeSong(4, 240, "C major")}

\* what the right panel shows: filterBpm ? filteredSongs : searchResults.songs
RightDisplaySongs ==
    IF leftSong # NoSong /\ leftSong.bpm # 0
    THEN rightPanel.filteredSongs
    ELSE rightPanel.searchResults

\* the songs of the catalog that GET /api/compatible answers for the base
\* track: another id and a measured tempo that matches the base tempo
CompatibleWith(base, catalog) ==
    {s \in catalog : s.id # base.id /\ MeasuredBpmMatch(s.bpm, base.bpm).bpmMatch}

\* onSongSelect of the left panel: setLeftSong(song); the right panel gets
\* new filterBpm / filterKey / excludeSongId props and loads the filtered songs
SelectLeft(song) ==
    /\ leftSong' = song
    /\ rightPanel' = IF song.bpm # 0
                     THEN [rightPanel EXCEPT !.filteredSongs = CompatibleWith(song, HomeSongs)]
                     ELSE rightPanel
    /\ UNCHANGED rightSong
    /\ UNCHANGED compatVars
    /\ UNCHANGED searchVars
    /\ UNCHANGED keyVars
    /\ UNCHANGED <<svcVars, ytVars, tokVars, panelVars, playerVars, quotaVars>>

\* onSongSelect of the right panel, for one of the songs it displays
SelectRight(song) ==
    /\ song \in RightDisplaySongs
    /\ rightSong' = song
    /\ UNCHANGED <<leftSong, rightPanel>>
    /\ UNCHANGED compatVars
    /\ UNCHANGED searchVars
    /\ UNCHANGED keyVars
    /\ UNCHANGED <<svcVars, ytVars, tokVars, panelVars, playerVars, quotaVars>>

\* the search input of the right panel, shown while no filter is active
RightSearch(found) ==
    /\ leftSong = NoSong
    /\ rightPanel' = [rightPanel EXCEPT !.searchResults = found]
    /\ UNCHANGED <<leftSong, rightSong>>
    /\ UNCHANGED compatVars
    /\ UNCHANGED searchVars
    /\ UNCHANGED keyVars
    /\ UNCHANGED <<svcVars, ytVars, tokVars, panelVars, playerVars, quotaVars>>

\* handleClearSong(side)
ClearSong(side) ==
    /\ IF side = "left"
       THEN leftSong' = NoSong /\ UNCHANGED rightSong
       ELSE rightSong' = NoSong /\ UNCHANGED leftSong
    /\ UNCHANGED rightPanel
    /\ UNCHANGED compatVars
    /\ UNCHANGED searchVars
    /\ UNCHANGED keyVars
    /\ UNCHANGED <<svcVars, ytVars, tokVars, panelVars, playerVars, quotaVars>>

(***************************************************************************)
(* Inputs: tracks, provider answers, requests, credentials                 *)
(***************************************************************************)
Track(id, name, artist) ==
    [id |-> id, name |-> name, artists |-> <<artist>>,
     duration_ms |-> 200000, nonMusic |-> FALSE]

Features(id, tempoX10, key, mode) ==
    [present |-> TRUE, id |-> id, tempoX10 |-> tempoX10, key |-> key, mode |-> mode]

\* a small catalog: 1, 2, 5, 6, 7 have audio features; 3 and 4 have none and
\* get the estimates 120 and 62; 6 is non-music content, 7 is too short
Catalog ==
    <<Track(1, <<66>>, <<97>>),
      [Track(2, <<67>>, <<98>>) EXCEPT !.artists = << <<98>>, <<99>> >>],
      Track(3, <<65>>, <<116>>),
      Track(4, <<122>>, <<122>>),
      Track(5, <<68>>, <<99>>),
      [Track(6, <<69>>, <<100>>) EXCEPT !.nonMusic = TRUE],
      [Track(7, <<70>>, <<101>>) EXCEPT !.duration_ms = 60000]>>

CatalogFeatures ==
    {Features(1, 1196, 9, 0), Features(2, 1234, 0, 1), Features(5, 2000, 4, 1),
     Features(6, 1200, 2, 1), Features(7, 1200, 7, 0)}

CatalogSet == {Catalog[i] : i \in 1..Len(Catalog)}

SeqsUpTo(S, n) == UNION {[1..k -> S] : k \in 0..n}

Answered(items) == [ok |-> TRUE, items |-> items]

Failed == [ok |-> FALSE, items |-> <<>>]

\* one search call answered with up to MaxItems catalog tracks, or two calls
\* answered with one track each; a call may fail
SmallSearches ==
    LET one == {Answered(<<t>>) : t \in CatalogSet} \cup {Failed}
    IN {<<r>> : r \in {Answered(s) : s \in SeqsUpTo(CatalogSet, MaxItems)} \cup {Failed}}
       \cup {<<r1, r2>> : r1 \in one, r2 \in one}

\* the pool with tempos 120, 240, 61, 58, 200; the tracks of tempo 120 and 61
\* either have audio features or get that tempo as their estimate
ScenarioTracks(est120, est61) ==
    <<IF est120 THEN Track(11, <<65>>, <<116>>) ELSE Track(11, <<71>>, <<97>>),
      Track(12, <<72>>, <<97>>),
      IF est61 THEN Track(13, <<122>>, <<121>>) ELSE Track(13, <<73>>, <<97>>),
      Track(14, <<74>>, <<97>>),
      Track(15, <<75>>, <<97>>)>>

ScenarioFeatures(est120, est61) ==
    {Features(12, 2400, 0, 1), Features(14, 580, 5, 0), Features(15, 2000, 7, 1)}
    \cup (IF est120 THEN {} ELSE {Features(11, 1200, 2, 1)})
    \cup (IF est61 THEN {} ELSE {Features(13, 610, 11, 0)})

\* a pool larger than the result limit, spread over the search calls; every
\* third track has no audio features
BigPoolSize == ResultLimit + BigPoolExtra

BigTrack(i) == Track(100 + i, <<58 + (i % 5)>>, <<121>>)

BigFeatures ==
    {Features(100 + i, 1150 + 10 * ((i * 7) % 11) + 4 * (i % 2), i % 12, i % 2) :
        i \in {j \in 1..BigPoolSize : j % 3 # 0}}

BigSearches ==
    LET all == [i \in 1..BigPoolSize |-> BigTrack(i)]
        nCalls == (BigPoolSize + SearchLimit - 1) \div SearchLimit
    IN [c \in 1..nCalls |->
           Answered(SubSeq(all, (c - 1) * SearchLimit + 1, Min(c * SearchLimit, BigPoolSize)))]

\* a pool that needs more than one feature batch: BatchSize + SearchLimit
\* tracks over consecutive search calls, whose last call repeats the first
HugePoolSize == BatchSize + SearchLimit

\* names 'A'..'E' by artist 'Z': the estimates are 94 to 98
HugeTrack(i) == Track(200 + i, <<65 + (i % 5)>>, <<90>>)

\* every tenth track has no audio features; every ninth has a tempo near
\* 120, the others have tempos from 90 to 96
HugeFeatures ==
    {Features(200 + i,
              IF i % 9 = 1 THEN 1150 + 10 * ((i * 7) % 11) + 4 * (i % 2)
              ELSE 900 + 10 * (i % 7),
              i % 12, i % 2) :
        i \in {j \in 1..HugePoolSize : j % 10 # 0}}

HugeSearches ==
    LET all == [i \in 1..HugePoolSize |-> HugeTrack(i)]
        nCalls == (HugePoolSize + SearchLimit - 1) \div SearchLimit
        chunk(c) == Answered(SubSeq(all, (c - 1) * SearchLimit + 1,
                                    Min(c * SearchLimit, HugePoolSize)))
    IN [c \in 1..(nCalls + 1) |-> IF c <= nCalls THEN chunk(c) ELSE chunk(1)]

\* the feature call that fails, if any: none, the first or the second
HugeWorlds ==
    {[searches |-> HugeSearches, features |-> HugeFeatures, featFail |-> f] : f \in {0, 1, 2}}

Worlds ==
    {[searches |-> s, features |-> CatalogFeatures, featFail |-> f] :
        s \in SmallSearches, f \in {0, 1}}
    \cup {[searches |-> <<Answered(ScenarioTracks(a, b))>>,
           features |-> ScenarioFeatures(a, b), featFail |-> 0] : a, b \in BOOLEAN}
    \cup {[searches |-> BigSearches, features |-> BigFeatures, featFail |-> f] : f \in {0, 1}}

EdgeWorlds ==
    {[searches |-> <<Answered(<<t>>)>>, features |-> CatalogFeatures, featFail |-> 0] :
        t \in CatalogSet}

BpmParam(kind, val) == [kind |-> kind, val |-> val]

KeyParams == {"", "C major", "F# minor"}

MainRequests ==
    [bpm : {BpmParam("int", 60), BpmParam("int", 120)},
     key : {"", "C major"},
     excludeId : {NoId, 1, 3, 101},
     genre : {"", "pop"},
     search : {"", "love"}]

EdgeRequests ==
    [bpm : {BpmParam("absent", 0), BpmParam("text", 0), BpmParam("int", 0),
            BpmParam("int", -60), BpmParam("int", 120)},
     key : {"", "C major"},
     excludeId : {NoId},
     genre : {""},
     search : {"", "love"}]

HugeRequests ==
    [bpm : {BpmParam("int", 120)},
     key : {""},
     excludeId : {NoId, 201},
     genre : {""},
     search : {""}]

Credentials(c, ok) ==
    [credentials |-> c, tokenOk |-> ok, access_token |-> 7, expires_in |-> 3600]

CachedToken == [spotifyToken |-> 5, tokenExpiresAt |-> Now0 + 1000]

ExpiredToken == [spotifyToken |-> 5, tokenExpiresAt |-> Now0]

\* <<env, token cache>>: a usable token is cached or can be fetched
GoodAuth == {<<Credentials(FALSE, FALSE), CachedToken>>, <<Credentials(TRUE, TRUE), EmptyCache>>}

AllAuth ==
    GoodAuth \cup {<<Credentials(TRUE, TRUE), ExpiredToken>>,
                   <<Credentials(TRUE, FALSE), EmptyCache>>,
                   <<Credentials(TRUE, FALSE), ExpiredToken>>,
                   <<Credentials(FALSE, TRUE), EmptyCache>>}

IdleCompat ==
    /\ compatResponse = Pending
    /\ candidates = <<>>
    /\ ranked = <<>>
    /\ issued = <<>>
    /\ batches = <<>>
    /\ now = Now0

IdleSearch ==
    /\ searchRequest = [q |-> <<>>]
    /\ searchToken = EmptyCache
    /\ searchResponse = Pending

IdleKeys ==
    /\ kIn = ""
    /\ kImpl = "service"
    /\ kOut = <<>>
    /\ kCalls = MaxKeyCalls

NoRequest ==
    [bpm |-> BpmParam("absent", 0), key |-> "", excludeId |-> NoId, genre |-> "",
     search |-> ""]

NoWorld == [searches |-> <<>>, features |-> {}, featFail |-> 0]

\* search texts: 'stay', 'STAY', 'the', 'Ed', '4 u', 'zzz' and the empty text
Queries ==
    {<<115, 116, 97, 121>>, <<83, 84, 65, 89>>, <<116, 104, 101>>, <<69, 100>>, <<52, 32, 117>>, <<122, 122, 122>>, <<>>}

NoCall ==
    [method |-> "none", online |-> FALSE, query |-> <<>>, page |-> 1, limit |-> FallbackLimit,
     bpm |-> 0, key |-> "", excludeId |-> NoId, genre |-> "", searchTerms |-> "",
     type |-> <<>>]

SearchSongsCalls ==
    {[NoCall EXCEPT !.method = "searchSongs", !.online = o, !.query = q,
                    !.page = p, !.limit = l] :
        o \in BOOLEAN, q \in Queries, p \in {1, 2}, l \in {FallbackLimit, 2}}

CompatibleCalls ==
    {[NoCall EXCEPT !.method = "getSongsByBpmAndKey", !.online = o, !.bpm = b, !.key = k,
                    !.excludeId = x, !.searchTerms = s] :
        o \in BOOLEAN, b \in {0, -60, 95, 120, 171}, k \in KeyParams,
        x \in {NoId, 1, 2}, s \in {"", "love"}}

YouTubeCalls ==
    {[NoCall EXCEPT !.method = "searchYouTubeVideos", !.online = o, !.query = q,
                    !.type = t] :
        o \in BOOLEAN, q \in {<<>>, <<115, 116, 97, 121>>}, t \in {Instrumental, Acapella}}

\* the search call answers with one catalog track, with nothing, or fails
ServiceWorlds ==
    {[searches |-> <<r>>, features |-> CatalogFeatures, featFail |-> f] :
        r \in {Answered(<<Catalog[1]>>), Answered(<<Catalog[3]>>), Answered(<<>>), Failed},
        f \in {0, 1}}

Video(videoId, title) ==
    [videoId |-> videoId, title |-> title, thumbnail |-> "https://i.ytimg.com/vi/mq.jpg"]

\* videos of the provider; the id of the second begins with 'mock'
SampleVideos ==
    {Video(<<100, 81, 119, 52, 119, 57, 87, 103, 88, 99, 81>>, <<83, 116, 97, 121, 32, 40, 79, 102, 102, 105, 99, 105, 97, 108, 32, 73, 110, 115, 116, 114, 117, 109, 101, 110, 116, 97, 108, 41>>),
     Video(<<109, 111, 99, 107, 84, 74, 57, 120, 113, 50, 65>>, <<83, 116, 97, 121, 32, 45, 32, 73, 110, 115, 116, 114, 117, 109, 101, 110, 116, 97, 108, 32, 75, 97, 114, 97, 111, 107, 101>>),
     Video(<<107, 84, 74, 99, 122, 85, 111, 99, 50, 54, 85>>, <<83, 116, 97, 121, 32, 65, 99, 97, 112, 101, 108, 108, 97, 32, 40, 86, 111, 99, 97, 108, 115, 32, 79, 110, 108, 121, 41>>),
     Video(<<77, 111, 99, 107, 48, 99, 50, 54, 85, 107, 84>>, <<83, 116, 97, 121, 32, 40, 83, 116, 117, 100, 105, 111, 32, 65, 99, 97, 112, 101, 108, 108, 97, 41>>),
     Video(<<69, 48, 55, 115, 53, 90, 89, 121, 103, 77, 103>>, <<83, 116, 97, 121, 32, 76, 121, 114, 105, 99, 115>>),
     Video(<<103, 78, 105, 95, 54, 85, 53, 80, 109, 95, 111>>, <<83, 116, 97, 121, 32, 73, 110, 115, 116, 114, 117, 109, 101, 110, 116, 97, 108, 32, 82, 69, 65, 67, 84, 73, 79, 78>>)}

\* more videos than one search call asks for
ManyVideos ==
    [i \in 1..(YtMaxResults + 1) |->
        Video(<<52, 78, 82, 88, 120, 54, 85, 56, 65, 66>> \o <<64 + i>>,
              IF i % 2 = 1 THEN <<83, 116, 97, 121, 32, 105, 110, 115, 116, 114, 117, 109, 101, 110, 116, 97, 108>> ELSE <<83, 116, 97, 121, 32, 97, 99, 97, 112, 101, 108, 108, 97>>)]

SampleDurations ==
    {<<>>,
     <<IsoDuration(TRUE, NoPart, 4, 13)>>,
     <<IsoDuration(TRUE, 1, 2, 3), IsoDuration(TRUE, NoPart, NoPart, 7)>>,
     <<IsoDuration(FALSE, NoPart, NoPart, NoPart), IsoDuration(TRUE, NoPart, 12, NoPart)>>}

YtSearch(ok, items) == [ok |-> ok, items |-> items]

YtDetails(ok, items) == [ok |-> ok, items |-> items]

YtWorlds ==
    [search : {YtSearch(FALSE, <<>>), YtSearch(TRUE, ManyVideos)}
              \cup {YtSearch(TRUE, s) : s \in SeqsUpTo(SampleVideos, MaxItems)},
     details : {YtDetails(FALSE, <<>>)} \cup {YtDetails(TRUE, d) : d \in SampleDurations}]

YtRequests ==
    [q : {<<>>, <<115, 116, 97, 121>>}, type : {<<>>, Instrumental, Acapella, <<108, 105, 118, 101>>}]

IdleService ==
    /\ svcCall = NoCall
    /\ svcResult = SvcPending
    /\ svcEvents = <<>>

IdleYoutube ==
    /\ ytRequest = [q |-> <<>>, type |-> <<>>]
    /\ ytEnv = [apiKey |-> FALSE]
    /\ ytWorld = [search |-> YtSearch(TRUE, <<>>), details |-> YtDetails(TRUE, <<>>)]
    /\ ytResponse = YtPending

IdleTokens ==
    /\ tokImpl = "compatible"
    /\ tokCache = EmptyCache
    /\ tokCalls = [c \in Callers |-> IdleCall]
    /\ tokLog = <<>>

IdlePanel ==
    /\ panelProps = [filterBpm |-> 0]
    /\ panelRequests = <<>>
    /\ searchResults = NoResults
    /\ filteredSongs = NoResults
    /\ loading = FALSE

IdlePlayer ==
    /\ playerProps = [title |-> <<>>, artist |-> <<>>, type |-> Instrumental,
                      autoSearch |-> FALSE]
    /\ playerVideos = <<>>
    /\ selectedVideo = NoVideo
    /\ playerLoading = FALSE
    /\ hasSearched = FALSE
    /\ searchTimeout = FALSE
    /\ playerRequests = <<>>
    /\ videoCache = <<>>

IdleQuota ==
    /\ today = 1
    /\ quotaMounted = FALSE
    /\ estimatedUsage = 0
    /\ quotaStored = NothingStored
    /\ quotaConsumed = <<>>

IdleHome ==
    /\ leftSong = NoSong
    /\ rightSong = NoSong
    /\ rightPanel = [searchResults |-> {}, filteredSongs |-> {}]

IdleUi ==
    /\ IdlePlayer
    /\ IdleQuota
    /\ IdleHome

IdleClient ==
    /\ IdleService
    /\ IdleYoutube
    /\ IdleTokens
    /\ IdlePanel
    /\ IdleUi

\* no request is made to the compatible route, the search route or the lookups
IdleRoutes ==
    /\ request = NoRequest
    /\ world = NoWorld
    /\ env = Credentials(FALSE, FALSE)
    /\ compatToken = EmptyCache
    /\ IdleCompat
    /\ IdleSearch
    /\ IdleKeys

(***************************************************************************)
(* Spec: one request to the compatible route                               *)
(***************************************************************************)
Init ==
    /\ \/ /\ request \in MainRequests
          /\ world \in Worlds
          /\ \E a \in GoodAuth : env = a[1] /\ compatToken = a[2]
       \/ /\ request \in EdgeRequests
          /\ world \in EdgeWorlds
          /\ \E a \in AllAuth : env = a[1] /\ compatToken = a[2]
       \/ /\ request \in HugeRequests
          /\ world \in HugeWorlds
          /\ env = Credentials(TRUE, TRUE)
          /\ compatToken = CachedToken
    /\ IdleCompat
    /\ IdleSearch
    /\ IdleKeys
    /\ IdleClient

Next == CompatibleGET

Spec == Init /\ [][Next]_vars

(***************************************************************************)
(* SpecWide: one track against every target BPM, through both routes       *)
(***************************************************************************)
\* measured tempos around every integer up to twice the target and beyond
WideMeasured ==
    {[searches |-> <<Answered(<<Track(1, <<66>>, <<97>>)>>)>>,
      features |-> {Features(1, 10 * c + 4 * (c % 3) - 4, c % 12, c % 2)},
      featFail |-> 0] : c \in 1..(2 * MaxTargetBpm + BpmTolerance + 1)}

\* names whose hashes cover every residue of the estimate
WideEstimated ==
    {[searches |-> <<Answered(<<Track(1, <<a>>, <<b>>)>>)>>,
      features |-> {},
      featFail |-> 0] : a \in 60..125, b \in {60, 126}}

InitWide ==
    /\ \E t \in 1..MaxTargetBpm :
          request = [bpm |-> BpmParam("int", t), key |-> "", excludeId |-> NoId,
                     genre |-> "", search |-> ""]
    /\ world \in WideMeasured \cup WideEstimated
    /\ env = Credentials(TRUE, TRUE)
    /\ compatToken = EmptyCache
    /\ IdleCompat
    /\ searchRequest = [q |-> <<115, 111, 110, 103>>]
    /\ searchToken = EmptyCache
    /\ searchResponse = Pending
    /\ IdleKeys
    /\ IdleClient

NextWide == CompatibleGET \/ SearchGET

SpecWide == InitWide /\ [][NextWide]_vars

(***************************************************************************)
(* SpecKeys: repeated key-compatibility lookups                            *)
(***************************************************************************)
\* the keys the two routes give to tracks with measured features: every
\* pitch class in both modes
MeasuredKeys ==
    {convertSpotifyTrackToSong(Track(1, <<66>>, <<97>>), Features(1, 1200, k, m)).key :
        k \in 0..11, m \in 0..1}
    \cup {searchConvertSpotifyTrackToSong(Track(1, <<66>>, <<97>>), Features(1, 1200, k, m)).key :
        k \in 0..11, m \in 0..1}

\* the keys the two routes give to tracks without features: names whose
\* hashes cover every index of the key lists
EstimatedKeyNames ==
    {convertSpotifyTrackToSong(Track(1, <<a>>, <<97>>), NoFeatures).key : a \in 60..80}
    \cup {searchConvertSpotifyTrackToSong(Track(1, <<a>>, <<97>>), NoFeatures).key : a \in 60..80}

\* every key the search or the compatible route can give to a track
ProducedKeys == MeasuredKeys \cup EstimatedKeyNames

KeyInputs ==
    TableKeys(ServiceKeyCompatibility)
    \cup ProducedKeys
    \cup {"Gb major", "Eb minor", "G# major", "D# major", "Cm", "Unknown", "Not A Key", "",
          "constructor", "toString"}

InitKeys ==
    /\ kIn \in KeyInputs
    /\ kImpl \in {"service", "route"}
    /\ kOut = <<>>
    /\ kCalls = 0
    /\ request = [bpm |-> BpmParam("absent", 0), key |-> "", excludeId |-> NoId,
                  genre |-> "", search |-> ""]
    /\ world = [searches |-> <<>>, features |-> {}, featFail |-> 0]
    /\ env = Credentials(FALSE, FALSE)
    /\ compatToken = EmptyCache
    /\ IdleCompat
    /\ IdleSearch
    /\ IdleClient

NextKeys == CallGetCompatibleKeys

SpecKeys == InitKeys /\ [][NextKeys]_vars

(***************************************************************************)
(* SpecService: one call of a musicService method, with the route it calls *)
(***************************************************************************)
InitService ==
    /\ \/ /\ svcCall \in SearchSongsCalls
          /\ world \in ServiceWorlds
          /\ \E a \in AllAuth : env = a[1] /\ searchToken = a[2]
          /\ compatToken = EmptyCache
          /\ IdleYoutube
       \/ /\ svcCall \in CompatibleCalls
          /\ world \in EdgeWorlds
          /\ \E a \in AllAuth : env = a[1] /\ compatToken = a[2]
          /\ searchToken = EmptyCache
          /\ IdleYoutube
       \/ /\ svcCall \in YouTubeCalls
          /\ world = NoWorld
          /\ env = Credentials(FALSE, FALSE)
          /\ compatToken = EmptyCache
          /\ searchToken = EmptyCache
          /\ ytRequest = [q |-> <<>>, type |-> <<>>]
          /\ ytEnv \in [apiKey : BOOLEAN]
          /\ ytWorld \in YtWorlds
          /\ ytResponse = YtPending
    /\ svcResult = SvcPending
    /\ svcEvents = <<>>
    /\ request = NoRequest
    /\ IdleCompat
    /\ searchRequest = [q |-> <<>>]
    /\ searchResponse = Pending
    /\ IdleKeys
    /\ IdleTokens
    /\ IdlePanel
    /\ IdleUi

NextService ==
    \/ ServiceSearchSongs
    \/ ServiceGetSongsByBpmAndKey
    \/ ServiceSearchYouTubeVideos

SpecService == InitService /\ [][NextService]_vars

(***************************************************************************)
(* SpecVideo: one request to the youtube route                             *)
(***************************************************************************)
InitVideo ==
    /\ ytRequest \in YtRequests
    /\ ytEnv \in [apiKey : BOOLEAN]
    /\ ytWorld \in YtWorlds
    /\ ytResponse = YtPending
    /\ IdleRoutes
    /\ IdleService
    /\ IdleTokens
    /\ IdlePanel
    /\ IdleUi

NextVideo == YoutubeGET

SpecVideo == InitVideo /\ [][NextVideo]_vars

(***************************************************************************)
(* SpecTokens: concurrent and repeated getSpotifyToken calls as time passes *)
(***************************************************************************)
InitTokens ==
    /\ tokImpl \in {"compatible", "search", "service"}
    /\ tokCache \in {EmptyCache, CachedToken, ExpiredToken}
    /\ tokCalls = [c \in Callers |-> IdleCall]
    /\ tokLog = <<>>
    /\ env \in {Credentials(TRUE, TRUE), Credentials(TRUE, FALSE), Credentials(FALSE, FALSE)}
    /\ request = NoRequest
    /\ world = NoWorld
    /\ compatToken = EmptyCache
    /\ IdleCompat
    /\ IdleSearch
    /\ IdleKeys
    /\ IdleService
    /\ IdleYoutube
    /\ IdlePanel
    /\ IdleUi

NextTokens ==
    \/ \E c \in Callers : TokenCall(c)
    \/ \E c \in Callers : TokenResponse(c)
    \/ Tick

SpecTokens == InitTokens /\ [][NextTokens]_vars

(***************************************************************************)
(* SpecPanel: one SearchPanel and the service calls it has in flight       *)
(***************************************************************************)
\* 'a', 'b' and a blank text
PanelQueries == {<<97>>, <<98>>, <<32>>}

PanelTerms == {"", "rock"}

InitPanel ==
    /\ panelProps \in [filterBpm : {0, 120}]
    /\ panelRequests = <<>>
    /\ searchResults = NoResults
    /\ filteredSongs = NoResults
    /\ loading = FALSE
    /\ IdleRoutes
    /\ IdleService
    /\ IdleYoutube
    /\ IdleTokens
    /\ IdleUi

NextPanel ==
    \/ \E q \in PanelQueries : PerformSearch(q)
    \/ \E k \in 1..MaxPanelRequests : SearchSettles(k)
    \/ \E s \in PanelTerms : LoadFilteredSongs(s)
    \/ \E k \in 1..MaxPanelRequests : FilteredSettles(k)

SpecPanel == InitPanel /\ [][NextPanel]_vars

(***************************************************************************)
(* SpecPlayer: one YouTubePlayer, the video cache and the calls in flight  *)
(***************************************************************************)
\* the songs 'a-b' by 'c' and 'a' by 'b-c'
PlayerSongs ==
    {[title |-> <<97, 45, 98>>, artist |-> <<99>>],
     [title |-> <<97>>, artist |-> <<98, 45, 99>>]}

PlayerTypes == {Instrumental, Acapella}

\* videos titled 'instrumental' and 'acapella'
PlayerVideo(n, type) == Video(<<Head(type), 48 + n>>, type)

\* the provider fails, finds nothing, or finds two videos of each type
PlayerWorlds ==
    {[search |-> YtSearch(FALSE, <<>>), details |-> YtDetails(FALSE, <<>>)],
     [search |-> YtSearch(TRUE, <<>>), details |-> YtDetails(TRUE, <<>>)],
     [search |-> YtSearch(TRUE, <<PlayerVideo(1, Instrumental), PlayerVideo(1, Acapella),
                                  PlayerVideo(2, Instrumental), PlayerVideo(2, Acapella)>>),
      details |-> YtDetails(TRUE, <<IsoDuration(TRUE, NoPart, 4, 13)>>)]}

\* the answers a call can get: the route's answer for a provider world, or
\* no answer because the route cannot be reached
PlayerAnswers ==
    {[world |-> yw, online |-> TRUE] : yw \in PlayerWorlds}
    \cup {[world |-> [search |-> YtSearch(FALSE, <<>>), details |-> YtDetails(FALSE, <<>>)],
            online |-> FALSE]}

InitPlayer ==
    /\ \E song \in PlayerSongs, auto \in BOOLEAN :
          /\ playerProps = [title |-> song.title, artist |-> song.artist,
                            type |-> Instrumental, autoSearch |-> auto]
          /\ searchTimeout = auto
    /\ playerVideos = <<>>
    /\ selectedVideo = NoVideo
    /\ playerLoading = FALSE
    /\ hasSearched = FALSE
    /\ playerRequests = <<>>
    /\ videoCache = <<>>
    /\ IdleRoutes
    /\ IdleService
    /\ IdleYoutube
    /\ IdleTokens
    /\ IdlePanel
    /\ IdleQuota
    /\ IdleHome

NextPlayer ==
    \/ \E song \in PlayerSongs, type \in PlayerTypes :
          PlayerSetProps(song.title, song.artist, type)
    \/ PlayerTimerFires
    \/ PlayerClickSearch
    \/ \E k \in 1..MaxPlayerRequests, a \in PlayerAnswers :
          PlayerResponse(k, a.world, a.online)
    \/ \E i \in 2..YtBestLimit : SelectVideo(i)

SpecPlayer == InitPlayer /\ [][NextPlayer]_vars

(***************************************************************************)
(* SpecQuota: the QuotaIndicator over mounts, quota events and days        *)
(***************************************************************************)
InitQuota ==
    /\ IdleQuota
    /\ IdleRoutes
    /\ IdleService
    /\ IdleYoutube
    /\ IdleTokens
    /\ IdlePanel
    /\ IdlePlayer
    /\ IdleHome

NextQuota ==
    \/ QuotaMount
    \/ QuotaUnmount
    \/ QuotaUsed(QuotaUnitsPerSearch)
    \/ DayChanges

SpecQuota == InitQuota /\ [][NextQuota]_vars

(***************************************************************************)
(* SpecHome: the selections of the main page                               *)
(***************************************************************************)
InitHome ==
    /\ IdleHome
    /\ IdleRoutes
    /\ IdleService
    /\ IdleYoutube
    /\ IdleTokens
    /\ IdlePanel
    /\ IdlePlayer
    /\ IdleQuota

NextHome ==
    \/ \E song \in HomeSongs : SelectLeft(song)
    \/ \E song \in HomeSongs : SelectRight(song)
    \/ \E found \in SUBSET HomeSongs : RightSearch(found)
    \/ \E side \in {"left", "right"} : ClearSong(side)

SpecHome == InitHome /\ [][NextHome]_vars

(***************************************************************************)
(* Properties of the tempo matcher                                         *)
(***************************************************************************)
TargetBpm == ParseBpm(request.bpm).val

Cands == DOMAIN candidates

Tempos(entries) == [i \in DOMAIN entries |-> entries[i].actualBpm]

Differences(entries) == [i \in DOMAIN entries |-> entries[i].bpmDifference]

\* C1: a candidate whose BPM equals a positive target BPM is a match with
\* distance 0, with measured tempo and with estimated tempo.
C1_ExactTempoIsMatchAtZero ==
    \A i \in Cands :
        (TargetBpm > 0 /\ candidates[i].actualBpm = TargetBpm)
            => (candidates[i].bpmMatch /\ candidates[i].bpmDifference = 0)

C1_Witness ==
    /\ compatResponse.status = 200
    /\ \E i \in Cands :
          /\ ~candidates[i].hasRealFeatures
          /\ candidates[i].actualBpm = TargetBpm
          /\ candidates[i].bpmMatch
          /\ candidates[i].bpmDifference = 0

\* C2: a candidate whose BPM is twice the positive target BPM, or the rounded
\* half of it, is a match with distance 0, with measured tempo and with
\* estimated tempo.
C2_DoubleAndHalfAtZero ==
    \A i \in Cands :
        (/\ TargetBpm > 0
         /\ \/ candidates[i].actualBpm = 2 * TargetBpm
            \/ candidates[i].actualBpm = MathRoundHalf(TargetBpm))
            => (candidates[i].bpmMatch /\ candidates[i].bpmDifference = 0)

\* the same for candidates with measured tempo only
C2_MeasuredDoubleAndHalfAtZero ==
    \A i \in Cands :
        (/\ TargetBpm > 0
         /\ candidates[i].hasRealFeatures
         /\ \/ candidates[i].actualBpm = 2 * TargetBpm
            \/ candidates[i].actualBpm = MathRoundHalf(TargetBpm))
            => (candidates[i].bpmMatch /\ candidates[i].bpmDifference = 0)

OctaveRelated(c, t) == c = 2 * t \/ c = MathRoundHalf(t) \/ MathRoundHalf(c) = t

\* whether c is within the tolerance of double or half the target t
NearOctave(c, t) == Abs(c - 2 * t) <= 5 \/ Abs(c - MathRoundHalf(t)) <= 5

SixRules(c, t) ==
    IF c = t THEN [bpmMatch |-> TRUE, bpmDifference |-> 0]
    ELSE IF c = 2 * t \/ c = MathRoundHalf(t) THEN [bpmMatch |-> TRUE, bpmDifference |-> 0]
    ELSE IF Abs(c - t) <= 5 THEN [bpmMatch |-> TRUE, bpmDifference |-> Abs(c - t)]
    ELSE IF Abs(c - 2 * t) <= 5 THEN [bpmMatch |-> TRUE, bpmDifference |-> Abs(c - 2 * t)]
    ELSE IF Abs(c - MathRoundHalf(t)) <= 5
    THEN [bpmMatch |-> TRUE, bpmDifference |-> Abs(c - MathRoundHalf(t))]
    ELSE [bpmMatch |-> FALSE, bpmDifference |-> NoDifference]

\* C4: for positive candidate and target BPM the match and the distance are
\* those of the six-rule precedence, for measured and for estimated candidates.
C4_SixRulePrecedence ==
    \A i \in Cands :
        (TargetBpm > 0 /\ candidates[i].actualBpm > 0)
            => LET r == SixRules(candidates[i].actualBpm, TargetBpm)
               IN /\ candidates[i].bpmMatch = r.bpmMatch
                  /\ r.bpmMatch => candidates[i].bpmDifference = r.bpmDifference

\* the six rules decide which measured candidates match (not their distance)
C4_MeasuredMatchSetAgrees ==
    \A i \in Cands :
        (TargetBpm > 0 /\ candidates[i].actualBpm > 0 /\ candidates[i].hasRealFeatures)
            => candidates[i].bpmMatch = SixRules(candidates[i].actualBpm, TargetBpm).bpmMatch

(***************************************************************************)
(* Properties of the ranking                                               *)
(***************************************************************************)
Returned == compatResponse.tracks

AllMeasured == \A i \in Cands : candidates[i].hasRealFeatures

\* the pool of the ranking scenario, as the handler sees it
ScenarioPool ==
    /\ compatResponse.status = 200
    /\ TargetBpm = 120
    /\ Tempos(candidates) = <<120, 240, 61, 58, 200>>

\* the result the scenario expects
ScenarioResult ==
    /\ Tempos(ranked) = <<120, 240, 61, 58>>
    /\ Differences(ranked) = <<0, 0, 1, 2>>
    /\ Len(Returned) = 4
    /\ \A i \in 1..4 : /\ Returned[i].id = candidates[i].song.id
                       /\ Returned[i].bpm = candidates[i].actualBpm

\* C5 as stated: with target 120 and a pool of tempos 120, 240, 61, 58, 200 the
\* result is 120, 240, 61, 58 with distances 0, 0, 1, 2.
C5_Original == ScenarioPool => ScenarioResult

\* C5: with target 120 and a pool of tracks with measured tempos 120, 240, 61,
\* 58, 200 in that order, the result is the tracks of tempo 120, 240, 61, 58 in
\* that order with distances 0, 0, 1, 2, and the track of tempo 200 is left out.
C5_MeasuredScenario == (ScenarioPool /\ AllMeasured) => ScenarioResult

C5_Witness == ScenarioPool /\ AllMeasured /\ ScenarioResult

\* C6: the returned list has at most 25 entries and holds no track whose id is
\* the excludeId of the request.
C6_BoundedAndExcludes ==
    /\ Len(Returned) <= 25
    /\ \A i \in DOMAIN Returned : Returned[i].id # request.excludeId

C6_Witness ==
    /\ compatResponse.status = 200
    /\ Len(Returned) = 25
    /\ Cardinality({i \in Cands : candidates[i].bpmMatch}) > 25
    /\ request.excludeId # NoId
    /\ \E c \in DOMAIN world.searches :
          \E i \in DOMAIN world.searches[c].items :
              world.searches[c].items[i].id = request.excludeId

\* C7: the returned list is in ascending order of tempo distance, and among
\* equal distances no track of measured tempo follows one of estimated tempo.
C7_SortedByDistanceThenQuality ==
    /\ Len(Returned) = Len(ranked)
    /\ \A i \in DOMAIN ranked : Returned[i].id = ranked[i].song.id
    /\ \A i, j \in DOMAIN ranked :
          i < j => /\ ranked[i].bpmDifference <= ranked[j].bpmDifference
                   /\ ranked[i].bpmDifference = ranked[j].bpmDifference
                        => ~(~ranked[i].hasRealFeatures /\ ranked[j].hasRealFeatures)

\* a measured track was moved in front of an estimated one of the same distance
\* that preceded it in the pool, and the list holds several distances
C7_Witness ==
    /\ compatResponse.status = 200
    /\ \E i, j \in DOMAIN ranked :
          /\ i < j
          /\ ranked[i].bpmDifference = ranked[j].bpmDifference
          /\ ranked[i].hasRealFeatures /\ ~ranked[j].hasRealFeatures
          /\ \E a, b \in Cands :
                /\ a < b
                /\ candidates[a].song.id = ranked[j].song.id
                /\ candidates[b].song.id = ranked[i].song.id
    /\ \E i, j \in DOMAIN ranked : ranked[i].bpmDifference < ranked[j].bpmDifference

KeysCompatibleWith(key) ==
    {key} \cup {routeGetCompatibleKeys(key).keys[i] :
                    i \in 1..Len(routeGetCompatibleKeys(key).keys)}

Found == searchResponse.tracks

\* C8: the estimate depends on title and artist only: for the same title and
\* artist the search route and the compatible route give the same bpm and the
\* same key, and an estimated bpm lies in 60..180.
C8_EstimateDeterministic ==
    /\ \A i \in Cands :
          ~candidates[i].hasRealFeatures => candidates[i].song.bpm \in 60..180
    /\ \A j \in DOMAIN Found :
          Found[j].source = "spotify-estimated" => Found[j].bpm \in 60..180
    /\ \A i \in Cands : \A j \in DOMAIN Found :
          (/\ ~candidates[i].hasRealFeatures
           /\ Found[j].source = "spotify-estimated"
           /\ candidates[i].song.title = Found[j].title
           /\ candidates[i].song.artist = Found[j].artist)
              => /\ candidates[i].song.bpm = Found[j].bpm
                 /\ candidates[i].song.key = Found[j].key

C8_Witness ==
    /\ compatResponse.status = 200
    /\ searchResponse.status = 200
    /\ \E i \in Cands : \E j \in DOMAIN Found :
          /\ ~candidates[i].hasRealFeatures
          /\ Found[j].source = "spotify-estimated"
          /\ candidates[i].song.title = Found[j].title
          /\ candidates[i].song.artist = Found[j].artist
          /\ Found[j].bpm = 180
          /\ candidates[i].song.key = Found[j].key

(***************************************************************************)
(* Properties of the key lookup                                            *)
(***************************************************************************)
CalledTable == IF kImpl = "service" THEN ServiceKeyCompatibility ELSE RouteKeyCompatibility

TableEntry(table, key) == table[CHOOSE i \in 1..Len(table) : table[i][1] = key][2]

KeysOf(seq) == {seq[i] : i \in 1..Len(seq)}

\* C9: getCompatibleKeys returns the table entry of a key of the table, which is
\* non-empty, has at most 5 keys and does not hold the key itself; for any other
\* key it returns the one-element sequence of that key; repeated calls agree.
C9_LookupContract ==
    /\ \A n \in DOMAIN kOut :
          IF kIn \in TableKeys(CalledTable)
          THEN /\ kOut[n].isArray
               /\ kOut[n].keys = TableEntry(CalledTable, kIn)
               /\ Len(kOut[n].keys) \in 1..5
               /\ kIn \notin KeysOf(kOut[n].keys)
          ELSE kOut[n] = [isArray |-> TRUE, keys |-> <<kIn>>]
    /\ \A m, n \in DOMAIN kOut : kOut[m] = kOut[n]

\* the same, for keys that are no property name inherited from Object.prototype
C9_LookupContractOwnKeys == kIn \notin ObjectPrototypeKeys => C9_LookupContract

(***************************************************************************)
(* Properties of the compatible route's results and its validation         *)
(***************************************************************************)
\* C11: every track returned as compatible has the BPM of the base track and,
\* when the base track's key is given, the key of the base track.
C11_SameBpmAndKey ==
    compatResponse.status = 200 =>
        \A i \in DOMAIN compatResponse.tracks :
            /\ compatResponse.tracks[i].bpm = TargetBpm
            /\ request.key # "" => compatResponse.tracks[i].key = request.key

\* the bpm parameter is absent, not a number, zero or negative
BpmNotPositive == LET b == ParseBpm(request.bpm) IN b.nan \/ b.val <= 0

\* C14: a request whose bpm is absent, non-numeric, zero or negative is answered
\* with status 400 and without tracks, and no search or feature call is issued.
C14_RejectsNonPositiveBpm ==
    (BpmNotPositive /\ compatResponse # Pending) =>
        /\ compatResponse.status = 400
        /\ compatResponse.tracks = <<>>
        /\ issued = <<>>
        /\ batches = <<>>

(***************************************************************************)
(* Properties of the fallback paths                                        *)
(***************************************************************************)
\* the provider refuses every call: the token request, the search, the features
ProviderRefusesAll ==
    /\ ~env.tokenOk
    /\ \A i \in DOMAIN world.searches : ~world.searches[i].ok
    /\ world.featFail = 1

FoldCase(c) == IF c \in 65..90 THEN c + 32 ELSE c

\* text contains q, letters compared without regard to case
ContainsIgnoringCase(text, q) ==
    \E i \in 1..(Len(text) + 1) :
        /\ i + Len(q) - 1 <= Len(text)
        /\ \A j \in 1..Len(q) : FoldCase(text[i + j - 1]) = FoldCase(q[j])

\* the positions of the fallback entries whose title or artist contains q
FallbackMatching(q) ==
    {j \in DOMAIN FALLBACK_SONGS :
        \/ ContainsIgnoringCase(FALLBACK_SONGS[j].title, q)
        \/ ContainsIgnoringCase(FALLBACK_SONGS[j].artist, q)}

\* songs are exactly the fallback entries at the positions in P, in catalog order
IsFallbackSelection(songs, P) ==
    /\ Len(songs) = Cardinality(P)
    /\ \A i \in DOMAIN songs :
          \E j \in P : /\ songs[i] = FALLBACK_SONGS[j]
                       /\ Cardinality({k \in P : k < j}) = i - 1

SearchedWhileRefused ==
    /\ svcCall.method = "searchSongs"
    /\ svcCall.online
    /\ svcCall.query # <<>>
    /\ svcResult # SvcPending
    /\ ProviderRefusesAll

CallFailed ==
    \/ ~svcCall.online
    \/ svcCall.method = "searchSongs" /\ searchResponse.status # 200
    \/ svcCall.method = "getSongsByBpmAndKey" /\ compatResponse.status # 200
    \/ svcCall.method = "searchYouTubeVideos" /\ ytResponse.status # 200

FromFallback(songs) ==
    \A i \in DOMAIN songs : \E j \in DOMAIN FALLBACK_SONGS : songs[i] = FALLBACK_SONGS[j]

\* C13: a call of searchSongs, getSongsByBpmAndKey or searchYouTubeVideos is
\* never rejected; when the request fails it resolves to fallback entries or
\* to an empty list.
C13_ServiceNeverRejects ==
    svcResult # SvcPending =>
        /\ svcResult.state = "fulfilled"
        /\ (CallFailed /\ svcCall.method = "searchSongs")
               => FromFallback(svcResult.value.songs)
        /\ (CallFailed /\ svcCall.method = "getSongsByBpmAndKey")
               => FromFallback(svcResult.value)
        /\ (CallFailed /\ svcCall.method = "searchYouTubeVideos")
               => svcResult.value = <<>>

C13_Witness ==
    /\ svcCall.method = "getSongsByBpmAndKey"
    /\ svcCall.online
    /\ compatResponse.status = 500
    /\ svcResult.state = "fulfilled"
    /\ Len(svcResult.value) = 2

(***************************************************************************)
(* Properties of the youtube route                                         *)
(***************************************************************************)
VideoIds == {ytResponse.videos[i].id : i \in DOMAIN ytResponse.videos}

\* a call to the video provider was made and failed
ProviderCallFailed ==
    \/ ~ytWorld.search.ok
    \/ ytWorld.search.items # <<>> /\ ~ytWorld.details.ok

VideoLookupAnswered == ytResponse # YtPending /\ ytRequest.q # <<>>

\* C15: a lookup with a non-empty query is answered with status 200 and only
\* descriptors whose id begins with 'mock' when the API key is absent or a
\* provider call fails, and with no such descriptor when the provider calls
\* succeed.
C15_MockIdsOnlyOnFailure ==
    VideoLookupAnswered =>
        IF ~ytEnv.apiKey \/ ProviderCallFailed
        THEN /\ ytResponse.status = 200
             /\ VideoIds # {}
             /\ \A id \in VideoIds : StartsWith(id, MockPrefix)
        ELSE \A id \in VideoIds : ~StartsWith(id, MockPrefix)

\* the part of C15 about the absent key and the failed calls
C15_PlaceholdersOnFailure ==
    (VideoLookupAnswered /\ (~ytEnv.apiKey \/ ProviderCallFailed)) =>
        /\ ytResponse.status = 200
        /\ VideoIds # {}
        /\ \A id \in VideoIds : StartsWith(id, MockPrefix)

(***************************************************************************)
(* Properties of the token cache                                           *)
(***************************************************************************)
\* no token is cached, or the recorded expiry has been reached
CacheStale == tokCache.spotifyToken = NoToken \/ now >= tokCache.tokenExpiresAt

\* the instant at which the token of a stored response expires
ActualExpiry(entry) == entry.at + entry.expires_in * 1000

\* C16: a token request is sent only when no token is cached or the recorded
\* expiry has been reached; otherwise the call returns the cached token and
\* leaves the cache as it is; the expiry recorded for a fetched token lies
\* between 60 and 300 seconds before the token's actual expiry.
C16_FetchOnlyWhenStale ==
    [][/\ \A c \in Callers :
             /\ (tokCalls[c].pc # "awaiting" /\ tokCalls'[c].pc = "awaiting") => CacheStale
             /\ (tokCalls'[c].calls > tokCalls[c].calls /\ ~CacheStale)
                    => /\ tokCalls'[c].pc = "returned"
                       /\ tokCalls'[c].token = tokCache.spotifyToken
                       /\ tokCache' = tokCache
       /\ Len(tokLog') > Len(tokLog)
             => LET entry == tokLog'[Len(tokLog')]
                IN /\ tokCache'.tokenExpiresAt = entry.recorded
                   /\ ActualExpiry(entry) - entry.recorded >= 60 * 1000
                   /\ ActualExpiry(entry) - entry.recorded <= 300 * 1000
      ]_vars

\* a token was fetched, served from the cache, and fetched again once the
\* recorded expiry had been reached
C16_Witness ==
    /\ Len(tokLog) = 2
    /\ ~tokLog[2].overlapped
    /\ tokLog[2].at >= tokLog[1].recorded
    /\ \E c \in Callers : tokCalls[c].pc = "returned" /\ tokCalls[c].token = tokLog[1].access_token

\* C17: with concurrent calls on an empty or expired cache every call that
\* sent a token request returns the token of its own response, and the cache
\* always holds the token of the last response stored together with the
\* expiry computed from that same response.
C17_LastWriteWins ==
    /\ \A c \in Callers :
          (tokCalls[c].pc = "returned" /\ tokCalls[c].fetched) =>
              \E i \in DOMAIN tokLog :
                  /\ tokLog[i].caller = c
                  /\ tokLog[i].access_token = tokCalls[c].token
                  /\ \A j \in DOMAIN tokLog : tokLog[j].caller = c => j <= i
    /\ tokLog # <<>> =>
          LET last == tokLog[Len(tokLog)]
          IN /\ tokCache.spotifyToken = last.access_token
             /\ tokCache.tokenExpiresAt = ActualExpiry(last) - RefreshMarginMs(tokImpl)

\* two calls awaited their token requests at the same time and both returned
C17_Witness ==
    /\ Len(tokLog) >= 2
    /\ tokLog[1].overlapped
    /\ tokLog[1].at < tokLog[2].at
    /\ \A c \in Callers : tokCalls[c].pc = "returned"
    /\ tokCalls[tokLog[1].caller].token # tokCalls[tokLog[2].caller].token

(***************************************************************************)
(* Properties of the search panel                                          *)
(***************************************************************************)
\* the number of the service call whose answer the panel holds for a kind
ShownFor(kind, results, filtered) ==
    IF kind = "search" THEN results.request ELSE filtered.request

\* C18: issuing a new search or compatibility call leaves every call in
\* flight in flight, and when a call settles the panel holds that call's
\* answer, also when a newer call of the same kind has settled before it.
C18_StaleResponseOverwrites ==
    [][/\ Len(panelRequests') > Len(panelRequests)
             => /\ InFlight(panelRequests) \subseteq InFlight(panelRequests')
                /\ Len(panelRequests') \in InFlight(panelRequests')
       /\ \A k \in InFlight(panelRequests) \ InFlight(panelRequests') :
             ShownFor(panelRequests[k].kind, searchResults', filteredSongs') = k
      ]_vars

\* the songs displayed are the answer of a call that was superseded, although
\* the newer call of the same kind has settled
C18_Witness ==
    \E k \in 1..Len(panelRequests) :
        /\ DisplaySongs.request = k
        /\ \E j \in (k + 1)..Len(panelRequests) :
              /\ panelRequests[j].kind = panelRequests[k].kind
              /\ panelRequests[j].settled
              /\ panelRequests[j].arg # panelRequests[k].arg

(***************************************************************************)
(* Properties of the calls a compatibility request issues                  *)
(***************************************************************************)
\* the ids of the deduplicated tracks, in the order of feature lookup
LookupIds == [i \in DOMAIN candidates |-> candidates[i].song.id]

\* the number of feature-lookup batches that carry id
TimesSent(id) ==
    Cardinality({kj \in {<<k, j>> : k \in DOMAIN batches, j \in 1..BatchSize} :
                    kj[2] <= Len(batches[kj[1]]) /\ batches[kj[1]][kj[2]] = id})

\* at most 8 search calls, no id twice among the tracks passed to feature
\* lookup, at most 100 ids per feature call
CallsBounded ==
    /\ Len(issued) <= 8
    /\ \A i, j \in DOMAIN LookupIds : LookupIds[i] = LookupIds[j] => i = j
    /\ \A k \in DOMAIN batches : Len(batches[k]) \in 1..100

\* C19 as stated: the calls are bounded and every deduplicated track id is
\* sent in exactly one feature-lookup batch.
C19_Original ==
    compatResponse.status = 200 =>
        /\ CallsBounded
        /\ \A i \in DOMAIN LookupIds : TimesSent(LookupIds[i]) = 1

\* C19: at most 8 search calls are issued, the tracks passed to feature lookup
\* contain no id twice, every feature call carries at most 100 ids, and the
\* feature calls carry consecutive runs of 100 deduplicated ids in order, so
\* that an id is sent at most once; every id is sent exactly once when no
\* feature call fails, and no call follows a failed one.
C19_BoundedCalls ==
    compatResponse.status = 200 =>
        /\ CallsBounded
        /\ \A k \in DOMAIN batches : \A j \in DOMAIN batches[k] :
              /\ (k - 1) * 100 + j <= Len(LookupIds)
              /\ batches[k][j] = LookupIds[(k - 1) * 100 + j]
        /\ \A k \in DOMAIN batches : k < Len(batches) => Len(batches[k]) = 100
        /\ \A i \in DOMAIN LookupIds : TimesSent(LookupIds[i]) <= 1
        /\ world.featFail \notin DOMAIN batches
              => \A i \in DOMAIN LookupIds : TimesSent(LookupIds[i]) = 1
        /\ world.featFail \in DOMAIN batches => Len(batches) = world.featFail

\* more than 100 deduplicated tracks, found by 8 search calls of which one
\* repeated tracks already found; the first feature call failed and the
\* second hundred was never sent
C19_Witness ==
    /\ compatResponse.status = 200
    /\ Len(issued) = 8
    /\ Len(LookupIds) > 100
    /\ \E a, b \in DOMAIN world.searches :
          a < b /\ world.searches[a].items # <<>>
                /\ world.searches[a].items = world.searches[b].items
    /\ world.featFail = 1
    /\ Len(batches) = 1
    /\ Len(batches[1]) = 100
    /\ TimesSent(LookupIds[Len(LookupIds)]) = 0

(***************************************************************************)
(* Properties of the key names the endpoints emit                          *)
(***************************************************************************)
\* the key of a track with the measured features f: pitch-class name, mode name
MeasuredKeyName(f) ==
    PITCH_CLASSES[f.key + 1] \o (IF f.mode = 1 THEN " major" ELSE " minor")

\* a song converted from measured features carries the name of the pitch
\* class followed by the name of the mode
MeasuredKeysNamed(tracks) ==
    \A i \in DOMAIN tracks :
        tracks[i].source = "spotify"
            => tracks[i].key = MeasuredKeyName(ProviderFeatures(world, tracks[i].id))

\* C20: for every track with measured audio features the key emitted by the
\* search endpoint and by the compatible endpoint is '<pitch> major' or
\* '<pitch> minor', the pitch-class name followed by the mode name.
C20_MeasuredKeysNamed ==
    /\ MeasuredKeysNamed(compatResponse.tracks)
    /\ MeasuredKeysNamed(searchResponse.tracks)

\* the same for the compatible endpoint alone
C20_CompatibleKeysNamed == MeasuredKeysNamed(compatResponse.tracks)

(***************************************************************************)
(* Properties of the video player and its cache                            *)
(***************************************************************************)
Calls == DOMAIN playerRequests

\* call k was made for this title, artist and type, and was answered
AnsweredFor(k, title, artist, type) ==
    /\ playerRequests[k].settled
    /\ playerRequests[k].title = title
    /\ playerRequests[k].artist = artist
    /\ playerRequests[k].type = type

\* C21: when every answered search for a song and type failed (provider or
\* network error), the video cache holds no entry for that song and type.
C21_FailedSearchNotCached ==
    \A k \in Calls :
        (/\ playerRequests[k].settled
         /\ \A j \in Calls :
               (playerRequests[j].settled /\ playerRequests[j].key = playerRequests[k].key)
                   => playerRequests[j].failed)
            => playerRequests[k].key \notin DOMAIN videoCache

\* performSearch runs, from the timer or from the button
PerformSearchRuns == PlayerTimerFires \/ PlayerClickSearch

\* C22: once a search for the title, artist and type of the player was
\* answered, performSearch shows the list the cache holds for them, makes no
\* call and dispatches no quota event; no entry ever leaves the cache.
C22_ServedFromCache ==
    [][/\ DOMAIN videoCache \subseteq DOMAIN videoCache'
       /\ (/\ PerformSearchRuns
           /\ \E k \in Calls : AnsweredFor(k, playerProps.title, playerProps.artist,
                                             playerProps.type))
             => /\ CurrentKey \in DOMAIN videoCache
                /\ playerVideos' = videoCache[CurrentKey]
                /\ hasSearched'
                /\ playerRequests' = playerRequests
                /\ svcEvents' = svcEvents
                /\ videoCache' = videoCache
      ]_vars

\* without autoSearch calls never overlap; two songs were searched, the
\* player went back to the first and shows its list, which only the cache
\* can have provided, after two calls and two quota events
C22_Witness ==
    /\ ~playerProps.autoSearch
    /\ Len(playerRequests) = 2
    /\ Len(svcEvents) = 2
    /\ AnsweredFor(1, playerProps.title, playerProps.artist, playerProps.type)
    /\ playerRequests[2].settled
    /\ playerRequests[2].key # playerRequests[1].key
    /\ playerRequests[2].response # playerRequests[1].response
    /\ hasSearched
    /\ playerVideos = playerRequests[1].response
    /\ playerVideos # <<>>

\* C25: the selected video is null or an element of the video list held.
C25_SelectedInList ==
    selectedVideo = NoVideo \/ \E i \in DOMAIN playerVideos : playerVideos[i] = selectedVideo

\* C26: the cache entry under the key of a title, artist and type holds the
\* answer of a call that was made for exactly that title, artist and type.
C26_EntryOfOwnRequest ==
    \A song \in PlayerSongs, type \in PlayerTypes :
        LET key == CacheKey(song.title, song.artist, type)
        IN key \in DOMAIN videoCache
              => \E k \in Calls : /\ AnsweredFor(k, song.title, song.artist, type)
                                   /\ playerRequests[k].response = videoCache[key]

\* the same, for the key under which each call stores its own answer
C26_StoredUnderOwnKey ==
    \A key \in DOMAIN videoCache :
        \E k \in Calls : /\ playerRequests[k].settled
                          /\ playerRequests[k].key = key
                          /\ playerRequests[k].response = videoCache[key]

(***************************************************************************)
(* Properties of the queries of the compatible route                       *)
(***************************************************************************)
\* the search calls made carry the terms with no year constraint
BroaderIssued ==
    \E i \in DOMAIN issued : issued[i].term = request.search /\ issued[i].year = ""

\* the handler went through its search loop for a request with search terms
SearchedWithTerms ==
    compatResponse.status = 200 /\ issued # <<>> /\ request.search # ""

\* C23: when search terms are supplied, a search with the terms and no year
\* constraint is among the calls made, with or without a genre.
C23_BroaderSearchIssued == SearchedWithTerms => BroaderIssued

\* the same, for requests that also name a genre
C23_BroaderWithGenre == (SearchedWithTerms /\ request.genre # "") => BroaderIssued

(***************************************************************************)
(* SpecFeatures: both routes when an audio-features call fails             *)
(***************************************************************************)
FeatureWorlds == Worlds \cup HugeWorlds

FeatureRequests ==
    [bpm : {BpmParam("int", 60), BpmParam("int", 120)},
     key : {""},
     excludeId : {NoId},
     genre : {""},
     search : {""}]

InitFeatures ==
    /\ request \in FeatureRequests
    /\ world \in FeatureWorlds
    /\ \E a \in GoodAuth : env = a[1] /\ compatToken = a[2] /\ searchToken = a[2]
    /\ IdleCompat
    /\ searchRequest = [q |-> <<115, 111, 110, 103>>]
    /\ searchResponse = Pending
    /\ IdleKeys
    /\ IdleClient

NextFeatures == CompatibleGET \/ SearchGET

SpecFeatures == InitFeatures /\ [][NextFeatures]_vars

\* the tracks the provider's searches can return
WorldTracks ==
    {world.searches[i].items[j] : <<i, j>> \in
        {p \in (DOMAIN world.searches) \X (1..SearchLimit) :
            p[2] <= Len(world.searches[p[1]].items)}}

\* compatible route: the batches that were answered before a call failed
AnsweredBatches ==
    IF world.featFail \in 1..Len(batches) THEN Len(batches) - 1 ELSE Len(batches)

\* compatible route: the features obtained for a track id, or none
ObtainedFeatures(id) ==
    IF \E k \in 1..AnsweredBatches : \E i \in DOMAIN batches[k] : batches[k][i] = id
    THEN ProviderFeatures(world, id)
    ELSE NoFeatures

\* the entry is the measured song when features were obtained for it and the
\* estimate from its name otherwise, and is marked accordingly
EntryDegrades(e) ==
    LET f == ObtainedFeatures(e.song.id)
    IN /\ e.hasRealFeatures = f.present
       /\ \E t \in WorldTracks : t.id = e.song.id /\ e.song = convertSpotifyTrackToSong(t, f)
       /\ e.song.source = IF f.present THEN "spotify" ELSE "spotify-estimated"
       /\ e.actualBpm = IF f.present THEN MathRoundX10(f.tempoX10) ELSE e.song.bpm

CompatibleDegrades ==
    compatResponse # Pending =>
        /\ compatResponse.status = 200
        /\ ~compatResponse.error
        /\ \A i \in DOMAIN candidates : EntryDegrades(candidates[i])
        /\ \A i \in DOMAIN compatResponse.tracks :
              \E j \in DOMAIN candidates :
                  compatResponse.tracks[i] =
                      [candidates[j].song EXCEPT !.bpm = candidates[j].actualBpm]

\* search route: the single audio-features call failed
SearchFeaturesFailed == world.featFail = 1

SearchDegrades ==
    (searchResponse # Pending /\ ProviderSearch(world, 1, SearchRouteLimit).ok) =>
        LET items == ProviderSearch(world, 1, SearchRouteLimit).items
            f(i) == IF SearchFeaturesFailed THEN NoFeatures
                    ELSE ProviderFeatures(world, items[i].id)
        IN /\ searchResponse.status = 200
           /\ ~searchResponse.error
           /\ Len(searchResponse.tracks) = Len(items)
           /\ \A i \in DOMAIN items :
                 /\ searchResponse.tracks[i] = searchConvertSpotifyTrackToSong(items[i], f(i))
                 /\ searchResponse.tracks[i].source =
                        IF f(i).present THEN "spotify" ELSE "spotify-estimated"

\* C24: with a token and answered searches, a failing audio-features call
\* never makes either route answer with an error; tracks without obtained
\* features carry the estimate computed from their name and are marked
\* estimated; tracks whose features were obtained before the failure keep
\* their measured values.
C24_FeatureFailureDegrades == CompatibleDegrades /\ SearchDegrades

\* the second audio-features call of the compatible route failed after the
\* first was answered: measured and estimated entries side by side, and the
\* estimated ones include tracks the provider has features for
C24_Witness ==
    /\ world.featFail = 2
    /\ Len(batches) = 2
    /\ compatResponse.status = 200
    /\ compatResponse.tracks # <<>>
    /\ \E i \in DOMAIN candidates : candidates[i].hasRealFeatures
    /\ \E i \in DOMAIN candidates :
          /\ ~candidates[i].hasRealFeatures
          /\ ProviderFeatures(world, candidates[i].song.id).present
    /\ searchResponse.status = 200

\* the audio-features call of the search route failed (and the first one of
\* the compatible route): every track of both answers is estimated
C24_WitnessAllEstimated ==
    /\ world.featFail = 1
    /\ batches # <<>>
    /\ compatResponse.status = 200
    /\ searchResponse.status = 200
    /\ searchResponse.tracks # <<>>
    /\ \A i \in DOMAIN searchResponse.tracks :
          /\ searchResponse.tracks[i].source = "spotify-estimated"
          /\ ProviderFeatures(world, searchResponse.tracks[i].id).present

(***************************************************************************)
(* Properties of the persisted quota usage                                 *)
(***************************************************************************)
RECURSIVE UnitsOn(_, _)
\* the units of the quota events of log that were dispatched on date
UnitsOn(log, date) ==
    IF log = <<>> THEN 0
    ELSE (IF Head(log).date = date THEN Head(log).units ELSE 0) + UnitsOn(Tail(log), date)

\* C27: the usage persisted under a date counts only units consumed on that
\* date.
C27_UsageOfItsDate ==
    quotaStored.present => quotaStored.usage <= UnitsOn(quotaConsumed, quotaStored.date)

(***************************************************************************)
(* Properties of the selections of the main page                           *)
(***************************************************************************)
\* the compatibility filter of the right panel admits song for base
Admits(base, song) ==
    song.id # base.id /\ MeasuredBpmMatch(song.bpm, base.bpm).bpmMatch

\* C28: whenever both sides are selected, the right song is admitted by the
\* compatibility filter for the current left song.
C28_RightAdmitted ==
    (leftSong # NoSong /\ rightSong # NoSong) => Admits(leftSong, rightSong)

(***************************************************************************)
(* Properties of a failing getSpotifyToken                                 *)
(***************************************************************************)
\* the call of caller c ends with a throw in this step
Raises(c) == tokCalls'[c] # tokCalls[c] /\ tokCalls'[c].pc = "threw"

\* C29: when no usable token is cached and the credentials are missing, or
\* the token request fails, getSpotifyToken throws and leaves the cached
\* token and its expiry exactly as they were.
C29_FailureLeavesCache ==
    [][\A c \in Callers :
          /\ (TokenCall(c) /\ ~TokenCached(tokCache, now) /\ ~env.credentials) => Raises(c)
          /\ (TokenResponse(c) /\ ~env.tokenOk) => Raises(c)
          /\ Raises(c) => tokCache' = tokCache
      ]_vars

\* the token request of a call failed while a stale token was cached: the
\* call threw and the stale token and its expiry are still there
C29_Witness ==
    /\ env.credentials
    /\ ~env.tokenOk
    /\ tokCache = ExpiredToken
    /\ \E c \in Callers : tokCalls[c].pc = "threw"

\* the same with missing credentials
C29_WitnessNoCredentials ==
    /\ ~env.credentials
    /\ tokCache = ExpiredToken
    /\ \E c \in Callers : tokCalls[c].pc = "threw"

(***************************************************************************)
(* Properties of the keys the routes produce, looked up in the tables      *)
(***************************************************************************)
\* keyCompatibility[key] || [key] took the right-hand side
SelfOnly(key, out) == out = [isArray |-> TRUE, keys |-> <<key>>]

\* C30: every key the search or the compatible route can give to a track is
\* a key of the key-compatibility table, so getCompatibleKeys never answers
\* a produced key with the one-element list of the key itself.
C30_ProducedKeysInTable ==
    \A n \in DOMAIN kOut :
        kIn \in ProducedKeys => (kIn \in TableKeys(CalledTable) /\ ~SelfOnly(kIn, kOut[n]))

\* the same for the estimated keys alone
C30_EstimatedKeysInTable ==
    \A n \in DOMAIN kOut :
        kIn \in EstimatedKeyNames => (kIn \in TableKeys(CalledTable) /\ ~SelfOnly(kIn, kOut[n]))

\* the keys of the compatible route's measured tracks, in the service's table
C30_LongNamesInServiceTable ==
    (kImpl = "service" /\ kIn \in {"C major", "F# minor", "Bb major", "C# major", "G# minor"})
        => \A n \in DOMAIN kOut : ~SelfOnly(kIn, kOut[n])
====
